---- MODULE Spec2Model ----
(***************************************************************************)
(* office-tracker: the day-record store and the settings store of db.py,   *)
(* the calendar grid and the date-range validation of calc.py, and the     *)
(* vacation-range handler of app.py, over a relational store modelled as   *)
(* two tables of rows in insertion order.                                  *)
(*                                                                         *)
(* Five specifications share the variables:                                *)
(*   Spec        one session; every action is one whole call of db.py      *)
(*   SpecConc    two sessions; every action is one storage call of a call  *)
(*               in progress, so that calls interleave at the storage calls*)
(*   SpecCalc    the pure functions of calc.py and build_weeks of app.py   *)
(*               applied to arguments drawn in the initial state           *)
(*   SpecFault   the calls of Spec with one storage call, or the holiday   *)
(*               lookup, of each call failing                              *)
(*   SpecImport  the calls that write day records, the import among them   *)
(***************************************************************************)
EXTENDS Integers, Sequences, FiniteSets, TLC

\* --------------------------------------------------------------- bounds

\* whole calls per behaviour of Spec
MaxOps == 3
\* calls each session makes in a behaviour of SpecConc
MaxCalls == 2

\* ------------------------------------------------------------- calendar
\* A date value (datetime.date) is a tuple <<year, month, day>>.

\* the None of an empty grid slot
None == <<>>

IsLeap(y) == (y % 4 = 0) /\ ((y % 100 # 0) \/ (y % 400 = 0))

DaysInMonth(y, m) ==
    IF m = 2 THEN (IF IsLeap(y) THEN 29 ELSE 28)
    ELSE IF m \in {4, 6, 9, 11} THEN 30 ELSE 31

RECURSIVE DaysBeforeMonth(_, _)
DaysBeforeMonth(y, m) ==
    IF m = 1 THEN 0 ELSE DaysBeforeMonth(y, m - 1) + DaysInMonth(y, m - 1)

DaysBeforeYear(y) ==
    LET p == y - 1 IN p * 365 + (p \div 4) - (p \div 100) + (p \div 400)

\* date.toordinal(): 0001-01-01 is day 1
Ordinal(d) == DaysBeforeYear(d[1]) + DaysBeforeMonth(d[1], d[2]) + d[3]

\* date.weekday(): Monday = 0 .. Sunday = 6
Weekday(d) == (Ordinal(d) + 6) % 7

\* (end_date - start_date).days
DaysBetween(s, e) == Ordinal(e) - Ordinal(s)

DateLT(a, b) == Ordinal(a) < Ordinal(b)

\* date.isoformat(): the text YYYY-MM-DD, held as its digits YYYYMMDD; for
\* four-digit years the texts order as these numbers do
IsoFormat(d) == d[1] * 10000 + d[2] * 100 + d[3]

\* datetime.fromisoformat(text).date()
FromIso(n) == <<n \div 10000, (n \div 100) % 100, n % 100>>

\* calendar.monthcalendar(year, month) as month_grid reads it: Monday-first
\* weeks of 7 slots, a slot outside the month is None
MonthGrid(y, m) ==
    LET w0 == Weekday(<<y, m, 1>>)
        nd == DaysInMonth(y, m)
        nw == (w0 + nd + 6) \div 7
    IN  [i \in 1..nw |->
           [j \in 1..7 |->
              LET day == (i - 1) * 7 + j - w0
              IN  IF day >= 1 /\ day <= nd THEN <<y, m, day>> ELSE None]]

\* the dates of the grid in the order "for week in grid: for day_date in week"
GridDates(y, m) ==
    LET g   == MonthGrid(y, m)
        all == [k \in 1..(7 * Len(g)) |-> g[((k - 1) \div 7) + 1][((k - 1) % 7) + 1]]
    IN  SelectSeq(all, LAMBDA x : x # None)

\* validate_date_range
MaxSpanDays == 365

\* mutant of ValidateDateRange: no limit on the span
ValidateDateRange_NoSpanLimit(s, e) == ~DateLT(e, s)

ValidateDateRange(s, e) ==
    IF DateLT(e, s) THEN FALSE
    ELSE IF DaysBetween(s, e) > MaxSpanDays THEN FALSE
    ELSE TRUE

\* ------------------------------------------------------------ constants

\* user_id == 'rachel': the owner whose seeded weekdays are preset
DefaultOwner == "rachel"

Owners == {"rachel", "bob"}

\* get_secret('DEFAULT_COUNTRY', 'UnitedStates'), get_secret('DEFAULT_STATE', ''),
\* get_secret('TIMEZONE', 'America/Los_Angeles') with no override configured
ConfigCountry == "UnitedStates"

ConfigState == ""

ConfigTimezone == "America/Los_Angeles"

\* the storage call, or the holiday lookup, that fails in a call ("none": no failure)
NoFault == "none"

\* ----------------------------------------------------------------- JSON
\* json.dumps of a list of strings is modelled as its tokens, json.loads reads
\* the strings back.

RECURSIVE JoinComma(_)
JoinComma(xs) ==
    IF Len(xs) = 0 THEN <<>>
    ELSE IF Len(xs) = 1 THEN xs
    ELSE <<Head(xs), ",">> \o JoinComma(Tail(xs))

JsonDumps(xs) == <<"[">> \o JoinComma(xs) \o <<"]">>

JsonLoads(toks) == SelectSeq(toks, LAMBDA t : t \notin {"[", "]", ","})

\* ------------------------------------------------------- helper: tables
\* A table is the sequence of its rows in insertion order (the position is the id).

Map(s, F(_)) == [i \in 1..Len(s) |-> F(s[i])]

Range(s) == {s[i] : i \in 1..Len(s)}

\* a row with the given columns overwritten (update(fields))
Merge(row, fields) ==
    [k \in DOMAIN row |-> IF k \in DOMAIN fields THEN fields[k] ELSE row[k]]

\* ------------------------------------------------------- settings table

SettingsColumns ==
    {"user_id", "required_percent", "rounding_mode", "credit_weekdays_json",
     "monfri_holiday_treatment", "country", "state", "timezone"}

\* required_percent is held in hundredths: 60 is 0.60
DefaultRequiredPercent == 60

DefaultCreditWeekdays == <<"TUE", "WED", "THU">>

\* mutant of DefaultSettingsRow: another rounding mode
DefaultSettingsRow_Floor(u) ==
    [user_id |-> u,
     required_percent |-> 60,
     rounding_mode |-> "floor",
     credit_weekdays_json |-> JsonDumps(<<"TUE", "WED", "THU">>),
     monfri_holiday_treatment |-> "neutral",
     country |-> ConfigCountry,
     state |-> ConfigState,
     timezone |-> ConfigTimezone]

\* default_settings of get_settings
DefaultSettingsRow(u) ==
    [user_id |-> u,
     required_percent |-> DefaultRequiredPercent,
     rounding_mode |-> "ceil",
     credit_weekdays_json |-> JsonDumps(DefaultCreditWeekdays),
     monfri_holiday_treatment |-> "neutral",
     country |-> ConfigCountry,
     state |-> ConfigState,
     timezone |-> ConfigTimezone]

\* the fallback get_settings returns when a storage call raised
FallbackSettings(u) ==
    [user_id |-> u,
     required_percent |-> DefaultRequiredPercent,
     rounding_mode |-> "ceil",
     credit_weekdays |-> DefaultCreditWeekdays,
     monfri_holiday_treatment |-> "neutral",
     country |-> "UnitedStates",
     state |-> "",
     timezone |-> "America/Los_Angeles"]

\* settings = result.data[0]; settings['credit_weekdays'] = json.loads(...)
ParseSettings(row) ==
    [k \in (DOMAIN row) \cup {"credit_weekdays"} |->
        IF k = "credit_weekdays" THEN JsonLoads(row.credit_weekdays_json) ELSE row[k]]

\* the value a column of settings takes when an insert does not give it
SettingsColumnDefault(col) == DefaultSettingsRow("")[col]

\* the settings table holds user_id unique
SettingsUserIdUnique == TRUE

\* table('settings').select('*').eq('user_id', u)
SelectSettings(stbl, u) == SelectSeq(stbl, LAMBDA r : r.user_id = u)

\* table('settings').insert(row): the row with the columns not given at their
\* defaults; a second row for a user_id raises
InsertSettings(stbl, given) ==
    LET row == [c \in SettingsColumns |->
                   IF c \in DOMAIN given THEN given[c] ELSE SettingsColumnDefault(c)]
    IN  IF SettingsUserIdUnique /\ \E r \in Range(stbl) : r.user_id = row.user_id
        THEN [ok |-> FALSE, tbl |-> stbl, data |-> <<>>]
        ELSE [ok |-> TRUE, tbl |-> Append(stbl, row), data |-> <<row>>]

\* table('settings').update(fields).eq('user_id', u)
UpdateSettings(stbl, u, fields) ==
    [tbl  |-> Map(stbl, LAMBDA r : IF r.user_id = u THEN Merge(r, fields) ELSE r),
     data |-> Map(SelectSettings(stbl, u), LAMBDA r : Merge(r, fields))]

\* get_settings when its select found no row: insert the defaults and return
\* the row inserted, or the fallback when the insert raised
GetSettingsCreate(stbl, u, fault) ==
    LET ins == InsertSettings(stbl, DefaultSettingsRow(u))
    IN  IF fault = "ins_settings" \/ ~ins.ok
        THEN [tbl |-> stbl, ret |-> FallbackSettings(u)]
        ELSE [tbl |-> ins.tbl, ret |-> ParseSettings(ins.data[1])]

\* get_settings: the table afterwards and the dictionary returned
GetSettings(stbl, u, fault) ==
    IF fault = "sel_settings"
    THEN [tbl |-> stbl, ret |-> FallbackSettings(u)]
    ELSE LET sel == SelectSettings(stbl, u)
         IN  IF sel # <<>>
             THEN [tbl |-> stbl, ret |-> ParseSettings(sel[1])]
             ELSE GetSettingsCreate(stbl, u, fault)

\* fields with credit_weekdays replaced by credit_weekdays_json
SettingsFieldsToColumns(fields) ==
    [k \in ((DOMAIN fields) \ {"credit_weekdays"}) \cup
           (IF "credit_weekdays" \in DOMAIN fields THEN {"credit_weekdays_json"} ELSE {}) |->
        IF k = "credit_weekdays_json" /\ "credit_weekdays" \in DOMAIN fields
        THEN JsonDumps(fields.credit_weekdays)
        ELSE fields[k]]

\* mutant of UpsertSettingsCreate: no insert after an update of no row
UpsertSettingsCreate_NoInsert(stbl, u, cols, fault) == stbl

\* upsert_settings when its update returned no row: insert the fields
UpsertSettingsCreate(stbl, u, cols, fault) ==
    LET ins == InsertSettings(stbl, [user_id |-> u] @@ cols)
    IN  IF fault = "ins_settings" \/ ~ins.ok THEN stbl ELSE ins.tbl

\* upsert_settings: the table afterwards
UpsertSettings(stbl, u, fields, fault) ==
    LET cols == SettingsFieldsToColumns(fields)
        upd  == UpdateSettings(stbl, u, cols)
    IN  IF fault = "upd_settings" THEN stbl
        ELSE IF upd.data # <<>> THEN upd.tbl
        ELSE UpsertSettingsCreate(upd.tbl, u, cols, fault)

\* ---------------------------------------------------------- holiday oracle
\* holidays.country_holidays(country, state=state): the dates it knows, with
\* their names, for the months the model visits.

OracleKnownCountries == {"UnitedStates"}

OracleHolidays(country, state) ==
    IF country = "UnitedStates"
    THEN {<<<<2024, 2, 19>>, "Washington's Birthday">>}
    ELSE {}

\* day_date in country_holidays
IsHoliday(hol, d) == \E h \in hol : h[1] = d

\* country_holidays.get(day_date, '') if is_holiday else ''
HolidayName(hol, d) ==
    IF IsHoliday(hol, d) THEN (CHOOSE h \in hol : h[1] = d)[2] ELSE ""

\* ------------------------------------------------------------ days table

DaysColumns == {"user_id", "date", "status", "is_holiday", "holiday_name", "notes"}

\* the value a column of days takes when an insert does not give it
DaysColumnDefault(col) ==
    [status |-> "NONE", is_holiday |-> FALSE, holiday_name |-> "", notes |-> ""][col]

\* the (user_id, date) keys of a list of rows
DayKeys(rows) == {<<rows[i].user_id, rows[i].date>> : i \in 1..Len(rows)}

\* table('days').insert(rows): one statement, all rows or none; where the table
\* holds (user_id, date) unique, a row for a key already held, or a key given
\* twice, raises
InsertDays(dtbl, given, unique) ==
    LET rows == Map(given, LAMBDA g :
                    [c \in DaysColumns |->
                        IF c \in DOMAIN g THEN g[c] ELSE DaysColumnDefault(c)])
        clash == \/ DayKeys(rows) \cap DayKeys(dtbl) # {}
                 \/ Cardinality(DayKeys(rows)) # Len(rows)
    IN  IF unique /\ clash
        THEN [ok |-> FALSE, tbl |-> dtbl, data |-> <<>>]
        ELSE [ok |-> TRUE, tbl |-> dtbl \o rows, data |-> rows]

\* the first day of the month after (year, month)
NextMonthStart(y, m) == IF m = 12 THEN <<y + 1, 1, 1>> ELSE <<y, m + 1, 1>>

\* mutant of SelectMonth: the month's rows of every owner
SelectMonth_AnyOwner(dtbl, u, y, m) ==
    SelectSeq(dtbl, LAMBDA r :
        /\ r.date >= IsoFormat(<<y, m, 1>>)
        /\ r.date < IsoFormat(NextMonthStart(y, m)))

\* table('days').select('*').eq('user_id', u).gte('date', start).lt('date', end)
SelectMonth(dtbl, u, y, m) ==
    SelectSeq(dtbl, LAMBDA r :
        /\ r.user_id = u
        /\ r.date >= IsoFormat(<<y, m, 1>>)
        /\ r.date < IsoFormat(NextMonthStart(y, m)))

\* mutant of UpdateDay: the columns not given are reset to their defaults
UpdateDay_ResetsOthers(dtbl, u, d, fields) ==
    LET hit(r) == r.user_id = u /\ r.date = IsoFormat(d)
        reset(r) == [c \in DaysColumns |->
                        IF c \in DOMAIN fields THEN fields[c]
                        ELSE IF c \in {"user_id", "date"} THEN r[c]
                        ELSE DaysColumnDefault(c)]
    IN  [tbl  |-> Map(dtbl, LAMBDA r : IF hit(r) THEN reset(r) ELSE r),
         data |-> Map(SelectSeq(dtbl, hit), reset)]

\* table('days').update(fields).eq('user_id', u).eq('date', d.isoformat())
UpdateDay(dtbl, u, d, fields) ==
    LET hit(r) == r.user_id = u /\ r.date = IsoFormat(d)
    IN  [tbl  |-> Map(dtbl, LAMBDA r : IF hit(r) THEN Merge(r, fields) ELSE r),
         data |-> Map(SelectSeq(dtbl, hit), LAMBDA r : Merge(r, fields))]

\* mutant of UpdateRange: the end date excluded (lt for lte)
UpdateRange_EndExclusive(dtbl, u, s, e) ==
    LET hit(r) == r.user_id = u /\ r.date >= IsoFormat(s) /\ r.date < IsoFormat(e)
        vac    == [status |-> "VACATION"]
    IN  [tbl  |-> Map(dtbl, LAMBDA r : IF hit(r) THEN Merge(r, vac) ELSE r),
         data |-> Map(SelectSeq(dtbl, hit), LAMBDA r : Merge(r, vac))]

\* mutant of UpdateRange: the rows outside the range are dropped
UpdateRange_KeepsOnlyRange(dtbl, u, s, e) ==
    LET hit(r) == r.user_id = u /\ r.date >= IsoFormat(s) /\ r.date <= IsoFormat(e)
        vac    == [status |-> "VACATION"]
    IN  [tbl  |-> Map(SelectSeq(dtbl, hit), LAMBDA r : Merge(r, vac)),
         data |-> Map(SelectSeq(dtbl, hit), LAMBDA r : Merge(r, vac))]

\* table('days').update({'status': 'VACATION'}).eq('user_id', u)
\*     .gte('date', start).lte('date', end)
UpdateRange(dtbl, u, s, e) ==
    LET hit(r) == r.user_id = u /\ r.date >= IsoFormat(s) /\ r.date <= IsoFormat(e)
        vac    == [status |-> "VACATION"]
    IN  [tbl  |-> Map(dtbl, LAMBDA r : IF hit(r) THEN Merge(r, vac) ELSE r),
         data |-> Map(SelectSeq(dtbl, hit), LAMBDA r : Merge(r, vac))]

\* day['date'] = datetime.fromisoformat(day['date']).date()
ParseDay(row) == [row EXCEPT !.date = FromIso(row.date)]

\* mutant of SeedStatus: the weekday numbered from Sunday
SeedStatus_FromSunday(u, d) ==
    LET wd == (Weekday(d) + 1) % 7
    IN  IF u = DefaultOwner /\ wd < 5
        THEN (IF wd \in {0, 4} THEN "WFH"
              ELSE IF wd \in {1, 2, 3} THEN "IN_OFFICE"
              ELSE "NONE")
        ELSE "NONE"

\* default_status of _seed_month
SeedStatus(u, d) ==
    IF u = DefaultOwner /\ Weekday(d) < 5
    THEN (IF Weekday(d) \in {0, 4} THEN "WFH"
          ELSE IF Weekday(d) \in {1, 2, 3} THEN "IN_OFFICE"
          ELSE "NONE")
    ELSE "NONE"

\* day_record of _seed_month
SeedRecord(u, d, hol) ==
    [user_id |-> u, date |-> IsoFormat(d), status |-> SeedStatus(u, d),
     is_holiday |-> IsHoliday(hol, d), holiday_name |-> HolidayName(hol, d),
     notes |-> ""]

\* mutant of MissingRecord: the preset status of _seed_month
MissingRecord_Preset(u, d, hol) ==
    [user_id |-> u, date |-> IsoFormat(d),
     status |-> IF u = DefaultOwner /\ Weekday(d) < 5 THEN "WFH" ELSE "NONE",
     is_holiday |-> IsHoliday(hol, d), holiday_name |-> HolidayName(hol, d),
     notes |-> ""]

\* missing_record of get_month_days
MissingRecord(u, d, hol) ==
    [user_id |-> u, date |-> IsoFormat(d), status |-> "NONE",
     is_holiday |-> IsHoliday(hol, d), holiday_name |-> HolidayName(hol, d),
     notes |-> ""]

\* days_to_insert of _seed_month
DaysToInsert(u, y, m, hol) == Map(GridDates(y, m), LAMBDA d : SeedRecord(u, d, hol))

\* mutant of MissingDates: every date of the grid, whether or not it has a row
MissingDates_AllGridDates(u, y, m, hol, found) ==
    Map(GridDates(y, m), LAMBDA d :
        [user_id |-> u, date |-> IsoFormat(d), status |-> "NONE",
         is_holiday |-> IsHoliday(hol, d), holiday_name |-> HolidayName(hol, d),
         notes |-> ""])

\* missing_dates of get_month_days, given the rows the select returned
MissingDates(u, y, m, hol, found) ==
    LET existing == {ParseDay(found[i]).date : i \in 1..Len(found)}
    IN  Map(SelectSeq(GridDates(y, m), LAMBDA d : d \notin existing),
            LAMBDA d : MissingRecord(u, d, hol))

\* whether holidays.country_holidays raises for the settings' country
OracleRaises(settings, fault) ==
    fault = "holidays" \/ settings.country \notin OracleKnownCountries

\* _seed_month, after its get_settings: the days table afterwards and the list
\* returned; raises is the lookup's exception, which _seed_month lets through
SeedMonth(dtbl, u, y, m, settings, fault, unique) ==
    IF OracleRaises(settings, fault)
    THEN [raises |-> TRUE, days |-> dtbl, ret |-> <<>>]
    ELSE LET rows == DaysToInsert(u, y, m, OracleHolidays(settings.country, settings.state))
             ins  == InsertDays(dtbl, rows, unique)
         IN  IF rows = <<>> \/ fault = "ins_days" \/ ~ins.ok
             THEN [raises |-> FALSE, days |-> dtbl, ret |-> <<>>]
             ELSE [raises |-> FALSE, days |-> ins.tbl, ret |-> Map(ins.data, ParseDay)]

\* the backfill branch of get_month_days, after its get_settings
Backfill(dtbl, u, y, m, found, settings, fault, unique) ==
    IF OracleRaises(settings, fault)
    THEN [days |-> dtbl, ret |-> <<>>]
    ELSE LET miss == MissingDates(u, y, m,
                        OracleHolidays(settings.country, settings.state), found)
             ins  == InsertDays(dtbl, miss, unique)
         IN  IF miss = <<>>
             THEN [days |-> dtbl, ret |-> Map(found, ParseDay)]
             ELSE IF fault = "ins_days" \/ ~ins.ok
             THEN [days |-> dtbl, ret |-> <<>>]
             ELSE [days |-> ins.tbl,
                   ret |-> Map(found, ParseDay) \o Map(ins.data, ParseDay)]

\* mutant of FillMonth: _seed_month whatever the select found
FillMonth_AlwaysSeeds(dtbl, u, y, m, found, settings, fault, unique) ==
    LET sd == SeedMonth(dtbl, u, y, m, settings, fault, unique)
    IN  [days |-> sd.days, ret |-> sd.ret]

\* get_month_days after its select and its get_settings: backfill when the
\* select found rows, _seed_month when it found none
FillMonth(dtbl, u, y, m, found, settings, fault, unique) ==
    IF found # <<>>
    THEN Backfill(dtbl, u, y, m, found, settings, fault, unique)
    ELSE LET sd == SeedMonth(dtbl, u, y, m, settings, fault, unique)
         IN  [days |-> sd.days, ret |-> sd.ret]

\* get_month_days: both tables afterwards, the list returned and the number of
\* rows its select found
GetMonthDays(stbl, dtbl, u, y, m, fault, unique) ==
    IF fault = "sel_days"
    THEN [settings |-> stbl, days |-> dtbl, ret |-> <<>>, found |-> 0]
    ELSE LET found == SelectMonth(dtbl, u, y, m)
             gs    == GetSettings(stbl, u, fault)
             f     == FillMonth(dtbl, u, y, m, found, gs.ret, fault, unique)
         IN  [settings |-> gs.tbl, days |-> f.days, ret |-> f.ret,
              found |-> Len(found)]

\* upsert_day when its update returned no row: insert the fields
UpsertDayCreate(dtbl, u, d, fields, fault, unique) ==
    LET ins == InsertDays(dtbl, <<[user_id |-> u, date |-> IsoFormat(d)] @@ fields>>,
                          unique)
    IN  IF fault = "ins_days" \/ ~ins.ok THEN dtbl ELSE ins.tbl

\* mutant of UpsertDay: the insert is made after a failed update too
UpsertDay_InsertsAfterFailedUpdate(dtbl, u, d, fields, fault, unique) ==
    LET upd == UpdateDay(dtbl, u, d, fields)
    IN  IF fault # "upd_days" /\ upd.data # <<>> THEN upd.tbl
        ELSE UpsertDayCreate(dtbl, u, d, fields, fault, unique)

\* upsert_day: the days table afterwards
UpsertDay(dtbl, u, d, fields, fault, unique) ==
    LET upd == UpdateDay(dtbl, u, d, fields)
    IN  IF fault = "upd_days" THEN dtbl
        ELSE IF upd.data # <<>> THEN upd.tbl
        ELSE UpsertDayCreate(upd.tbl, u, d, fields, fault, unique)

\* bulk_set_vacation: the days table afterwards and the count returned
BulkSetVacation(dtbl, u, s, e, fault) ==
    LET upd == UpdateRange(dtbl, u, s, e)
    IN  IF fault = "upd_days"
        THEN [days |-> dtbl, ret |-> 0]
        ELSE [days |-> upd.tbl, ret |-> IF upd.data # <<>> THEN Len(upd.data) ELSE 0]

\* ------------------------------------------------------- calc: the summary

\* dict.get(key, default)
Get(d, k, default) == IF k \in DOMAIN d THEN d[k] ELSE default

\* get_next_status: the statuses, in the order of the cycle
CalcStatuses ==
    <<"NONE", "WFH", "IN_OFFICE", "VACATION", "BIOHUB", "TRAINING", "OTHER_HOLIDAY">>

\* strftime('%a').upper() of the days of the week, Monday first
WeekdayTokens == <<"MON", "TUE", "WED", "THU", "FRI", "SAT", "SUN">>

\* holiday_date.strftime('%a').upper()
WeekdayToken(d) == WeekdayTokens[Weekday(d) + 1]

\* mutant of CreditedHoliday: Mon/Fri decided by the treatment alone
CreditedHoliday_MonFriByTreatment(d, settings) ==
    LET weekday == WeekdayToken(d)
    IN  IF weekday \in {"MON", "FRI"}
        THEN Get(settings, "monfri_holiday_treatment", "neutral") = "credit"
        ELSE weekday \in Range(Get(settings, "credit_weekdays", DefaultCreditWeekdays))

\* mutant of CreditedHoliday: the treatment "exclude" credits as "credit" does
CreditedHoliday_ExcludeCredits(d, settings) ==
    LET weekday == WeekdayToken(d)
    IN  IF weekday \in Range(Get(settings, "credit_weekdays", DefaultCreditWeekdays))
        THEN TRUE
        ELSE IF weekday \in {"MON", "FRI"}
        THEN Get(settings, "monfri_holiday_treatment", "neutral") # "neutral"
        ELSE FALSE

\* credited_holiday
CreditedHoliday(d, settings) ==
    LET weekday == WeekdayToken(d)
    IN  IF weekday \in Range(Get(settings, "credit_weekdays", DefaultCreditWeekdays))
        THEN TRUE
        ELSE IF weekday \in {"MON", "FRI"}
        THEN Get(settings, "monfri_holiday_treatment", "neutral") = "credit"
        ELSE FALSE

\* COUNTS_AS_OFFICE
CountsAsOffice == {"IN_OFFICE", "VACATION", "BIOHUB", "TRAINING", "OTHER_HOLIDAY"}

RECURSIVE SumSeq(_)
SumSeq(xs) == IF xs = <<>> THEN 0 ELSE Head(xs) + SumSeq(Tail(xs))

\* compute_summary: whether the record is one of a weekday (Mon-Fri)
IsWorkday(day) == Weekday(day.date) < 5

\* compute_summary: whether the record's holiday is credited (source 2)
HolidayCredit(day, settings) ==
    Get(day, "is_holiday", FALSE) /\ CreditedHoliday(day.date, settings)

\* mutant of DailyCredit: the two sources added, and the holiday credited on
\* weekend days too
DailyCredit_AddsSources(day, settings) ==
    (IF Get(day, "status", "NONE") \in CountsAsOffice THEN 1 ELSE 0)
        + (IF HolidayCredit(day, settings) THEN 1 ELSE 0)

\* compute_summary: what one record adds to numerator
DailyCredit(day, settings) ==
    LET status == Get(day, "status", "NONE")
    IN  IF IsWorkday(day)
        THEN LET bySource1 == IF status \in CountsAsOffice THEN 1 ELSE 0
             IN  IF HolidayCredit(day, settings) THEN 1 ELSE bySource1
        ELSE IF status \in CountsAsOffice THEN 1 ELSE 0

\* mutant of HolidayCount: the holiday counted only where the status did not
\* already credit the day
HolidayCount_OnlyWhenDeciding(day, settings) ==
    IF /\ IsWorkday(day)
       /\ HolidayCredit(day, settings)
       /\ Get(day, "status", "NONE") \notin CountsAsOffice
    THEN 1 ELSE 0

\* compute_summary: what one record adds to credited_holidays
HolidayCount(day, settings) ==
    IF IsWorkday(day) /\ HolidayCredit(day, settings) THEN 1 ELSE 0

\* mutant of WorkdayCount: a weekend record with an office status counted
WorkdayCount_CountsWorkedWeekend(day) ==
    IF IsWorkday(day) \/ Get(day, "status", "NONE") \in CountsAsOffice THEN 1 ELSE 0

\* compute_summary: what one record adds to workdays
WorkdayCount(day) == IF IsWorkday(day) THEN 1 ELSE 0

\* required_exact = required_percent * denominator is a product of binary
\* floating-point numbers. With the percent a number of hundredths, the exact
\* product is percent * denominator / 100; the double product differs from it
\* by less than 1e-14. Where the exact product is a whole number or a whole
\* number and a half, this is the sign of (double product - exact product);
\* elsewhere the difference cannot change a rounding. The entries are those of
\* IEEE 754 double arithmetic for percents 0..100 and denominators 0..40.
FloatProductError(pct, den) ==
    IF <<pct, den>> \in {<<14, 25>>, <<28, 25>>, <<56, 25>>} THEN 1
    ELSE IF <<pct, den>> = <<58, 25>> THEN -1
    ELSE 0

\* compute_summary: required_days, the percent in hundredths
RequiredDays(pct, den, mode) ==
    IF den > 0
    THEN LET exact == pct * den          \* required_exact, in hundredths
             whole == exact \div 100
             frac  == exact % 100
             err   == FloatProductError(pct, den)
         IN  IF mode = "ceil"
             THEN IF frac = 0 THEN (IF err > 0 THEN whole + 1 ELSE whole)
                  ELSE whole + 1
             ELSE IF mode = "floor"
             THEN IF frac = 0 THEN (IF err < 0 THEN whole - 1 ELSE whole)
                  ELSE whole
             ELSE \* Decimal(str(required_exact)).quantize(Decimal('1'), ROUND_HALF_UP)
                  IF frac = 50 THEN (IF err < 0 THEN whole ELSE whole + 1)
                  ELSE IF frac > 50 THEN whole + 1
                  ELSE whole
    ELSE 0

\* mutant of PercentAchieved: the division made for an empty month too
PercentAchieved_NoZeroGuard(numerator, denominator) ==
    [n |-> numerator * 100, d |-> denominator]

\* compute_summary: percent_achieved, the fraction numerator * 100 / denominator
\* as [n, d] (0 is [n |-> 0, d |-> 1])
PercentAchieved(numerator, denominator) ==
    IF denominator > 0
    THEN [n |-> numerator * 100, d |-> denominator]
    ELSE [n |-> 0, d |-> 1]

\* compute_summary: status_counts
StatusCounts(days) ==
    LET statusOf(i) == Get(days[i], "status", "NONE")
    IN  [s \in {statusOf(i) : i \in 1..Len(days)} |->
            Cardinality({i \in 1..Len(days) : statusOf(i) = s})]

\* compute_summary
ComputeSummary(days, settings) ==
    LET workdays     == SumSeq(Map(days, WorkdayCount))
        numerator    == SumSeq(Map(days, LAMBDA day : DailyCredit(day, settings)))
        holidays     == SumSeq(Map(days, LAMBDA day : HolidayCount(day, settings)))
        denominator  == workdays
        requiredDays == RequiredDays(Get(settings, "required_percent",
                                         DefaultRequiredPercent),
                                     denominator,
                                     Get(settings, "rounding_mode", "ceil"))
    IN  [workdays          |-> workdays,
         denominator       |-> denominator,
         numerator         |-> numerator,
         required_days     |-> requiredDays,
         balance           |-> numerator - requiredDays,
         percent_achieved  |-> PercentAchieved(numerator, denominator),
         status_counts     |-> StatusCounts(days),
         credited_holidays |-> holidays]

\* ----------------------------------------------------- calc: the JSON codec
\* A JSON value is [t, v]: t its kind, v what it holds. A JSON text is the
\* sequence of its tokens: the scalars, and the punctuation { } [ ] : ,

JStr(x) == [t |-> "str", v |-> x]

\* a string of the form YYYY-MM-DD, held as the number YYYYMMDD
JIso(n) == [t |-> "isostr", v |-> n]

JNum(x) == [t |-> "num", v |-> x]

JBool(b) == [t |-> "bool", v |-> b]

JNull == [t |-> "null", v |-> 0]

JArr(items) == [t |-> "arr", v |-> items]

\* an object: its members <<key, value>> in order
JObj(members) == [t |-> "obj", v |-> members]

\* a date object (what date.fromisoformat returns)
PyDate(d) == [t |-> "date", v |-> d]

Punct(c) == [t |-> "punct", v |-> c]

RECURSIVE Dumps(_), DumpItems(_), DumpMembers(_)

\* json.dumps
Dumps(x) ==
    IF x.t = "arr" THEN <<Punct("[")>> \o DumpItems(x.v) \o <<Punct("]")>>
    ELSE IF x.t = "obj" THEN <<Punct("{")>> \o DumpMembers(x.v) \o <<Punct("}")>>
    ELSE <<x>>

DumpItems(xs) ==
    IF Len(xs) = 0 THEN <<>>
    ELSE IF Len(xs) = 1 THEN Dumps(xs[1])
    ELSE Dumps(xs[1]) \o <<Punct(",")>> \o DumpItems(Tail(xs))

DumpMembers(ms) ==
    IF Len(ms) = 0 THEN <<>>
    ELSE LET one == <<JStr(ms[1][1]), Punct(":")>> \o Dumps(ms[1][2])
         IN  IF Len(ms) = 1 THEN one
             ELSE one \o <<Punct(",")>> \o DumpMembers(Tail(ms))

ParseFail == [ok |-> FALSE, val |-> JNull, next |-> 0]

ParseOk(x, next) == [ok |-> TRUE, val |-> x, next |-> next]

IsPunct(toks, i, c) == i <= Len(toks) /\ toks[i].t = "punct" /\ toks[i].v = c

RECURSIVE ParseValue(_, _), ParseItems(_, _, _), ParseMembers(_, _, _)

\* json.loads: the value that starts at token i and the position after it
ParseValue(toks, i) ==
    IF i > Len(toks) THEN ParseFail
    ELSE IF toks[i].t # "punct" THEN ParseOk(toks[i], i + 1)
    ELSE IF toks[i].v = "["
    THEN IF IsPunct(toks, i + 1, "]") THEN ParseOk(JArr(<<>>), i + 2)
         ELSE ParseItems(toks, i + 1, <<>>)
    ELSE IF toks[i].v = "{"
    THEN IF IsPunct(toks, i + 1, "}") THEN ParseOk(JObj(<<>>), i + 2)
         ELSE ParseMembers(toks, i + 1, <<>>)
    ELSE ParseFail

ParseItems(toks, i, acc) ==
    LET r == ParseValue(toks, i)
    IN  IF ~r.ok THEN ParseFail
        ELSE IF IsPunct(toks, r.next, ",")
        THEN ParseItems(toks, r.next + 1, Append(acc, r.val))
        ELSE IF IsPunct(toks, r.next, "]")
        THEN ParseOk(JArr(Append(acc, r.val)), r.next + 1)
        ELSE ParseFail

ParseMembers(toks, i, acc) ==
    IF i > Len(toks) \/ toks[i].t # "str" \/ ~IsPunct(toks, i + 1, ":")
    THEN ParseFail
    ELSE LET r == ParseValue(toks, i + 2)
             m == <<toks[i].v, r.val>>
         IN  IF ~r.ok THEN ParseFail
             ELSE IF IsPunct(toks, r.next, ",")
             THEN ParseMembers(toks, r.next + 1, Append(acc, m))
             ELSE IF IsPunct(toks, r.next, "}")
             THEN ParseOk(JObj(Append(acc, m)), r.next + 1)
             ELSE ParseFail

\* json.loads: ok is false where it raises JSONDecodeError
Loads(toks) ==
    LET r == ParseValue(toks, 1)
    IN  IF r.ok /\ r.next = Len(toks) + 1 THEN r ELSE ParseFail

\* whether an object holds the key
ObjHas(obj, k) == \E i \in 1..Len(obj.v) : obj.v[i][1] = k

\* obj.get(k, default): of members of one key, json.loads keeps the last
ObjGet(obj, k, default) ==
    LET at == {i \in 1..Len(obj.v) : obj.v[i][1] = k}
    IN  IF at = {} THEN default
        ELSE obj.v[CHOOSE i \in at : \A j \in at : j <= i][2]

\* obj[k] = x
ObjSet(obj, k, x) ==
    IF ObjHas(obj, k)
    THEN JObj(Map(obj.v, LAMBDA m : IF m[1] = k THEN <<k, x>> ELSE m))
    ELSE JObj(Append(obj.v, <<k, x>>))

\* mutant of SerializeDay: holiday_name and notes read without a default
SerializeDay_NoDefaults(day) ==
    JObj(<< <<"date", JIso(IsoFormat(day.date))>>,
            <<"status", JStr(day.status)>>,
            <<"is_holiday", JBool(day.is_holiday)>>,
            <<"holiday_name", IF "holiday_name" \in DOMAIN day
                              THEN JStr(day.holiday_name) ELSE JNull>>,
            <<"notes", IF "notes" \in DOMAIN day THEN JStr(day.notes) ELSE JNull>> >>)

\* serialize_month: one element of serialized_days
SerializeDay(day) ==
    JObj(<< <<"date", JIso(IsoFormat(day.date))>>,
            <<"status", JStr(day.status)>>,
            <<"is_holiday", JBool(day.is_holiday)>>,
            <<"holiday_name", JStr(Get(day, "holiday_name", ""))>>,
            <<"notes", JStr(Get(day, "notes", ""))>> >>)

\* the summary dictionary of compute_summary as a JSON object
SummaryToJson(summary) ==
    LET counted == SelectSeq(CalcStatuses, LAMBDA st : st \in DOMAIN summary.status_counts)
    IN  JObj(<< <<"workdays", JNum(summary.workdays)>>,
                <<"denominator", JNum(summary.denominator)>>,
                <<"numerator", JNum(summary.numerator)>>,
                <<"required_days", JNum(summary.required_days)>>,
                <<"balance", JNum(summary.balance)>>,
                <<"percent_achieved", JNum(summary.percent_achieved)>>,
                <<"status_counts",
                  JObj(Map(counted, LAMBDA st : <<st, JNum(summary.status_counts[st])>>))>>,
                <<"credited_holidays", JNum(summary.credited_holidays)>> >>)

\* serialize_month: export_data
ExportData(days, settings, summary) ==
    JObj(<< <<"version", JStr("1.2")>>,
            <<"user_id", JStr(Get(settings, "user_id", "rachel"))>>,
            <<"month",
              JObj(<< <<"year", IF Len(days) > 0 THEN JNum(days[1].date[1]) ELSE JNull>>,
                      <<"month", IF Len(days) > 0 THEN JNum(days[1].date[2]) ELSE JNull>> >>)>>,
            <<"settings",
              JObj(<< <<"required_percent",
                        JNum(Get(settings, "required_percent", DefaultRequiredPercent))>>,
                      <<"rounding_mode", JStr(Get(settings, "rounding_mode", "ceil"))>>,
                      <<"credit_weekdays",
                        JArr(Map(Get(settings, "credit_weekdays", DefaultCreditWeekdays),
                                 JStr))>>,
                      <<"monfri_holiday_treatment",
                        JStr(Get(settings, "monfri_holiday_treatment", "neutral"))>>,
                      <<"country", JStr(Get(settings, "country", "UnitedStates"))>>,
                      <<"state", JStr(Get(settings, "state", ""))>>,
                      <<"timezone", JStr(Get(settings, "timezone", "America/Los_Angeles"))>> >>)>>,
            <<"summary", SummaryToJson(summary)>>,
            <<"days", JArr(Map(days, SerializeDay))>> >>)

\* serialize_month: the JSON text
SerializeMonth(days, settings, summary) == Dumps(ExportData(days, settings, summary))

\* date.fromisoformat: whether YYYY-MM-DD names a calendar date
ValidIso(n) ==
    LET d == FromIso(n)
    IN  d[1] \in 1..9999 /\ d[2] \in 1..12 /\ d[3] \in 1..DaysInMonth(d[1], d[2])

\* day['date'] = date.fromisoformat(day['date']) of one element of days: the
\* element afterwards, or the exception raised
ConvertDay(day) ==
    IF day.t # "obj" THEN [ok |-> FALSE, day |-> day, error |-> "TypeError"]
    ELSE IF ~ObjHas(day, "date") THEN [ok |-> FALSE, day |-> day, error |-> "KeyError"]
    ELSE LET text == ObjGet(day, "date", JNull)
         IN  IF text.t = "str" THEN [ok |-> FALSE, day |-> day, error |-> "ValueError"]
             ELSE IF text.t # "isostr"
             THEN [ok |-> FALSE, day |-> day, error |-> "TypeError"]
             ELSE IF ~ValidIso(text.v)
             THEN [ok |-> FALSE, day |-> day, error |-> "ValueError"]
             ELSE [ok |-> TRUE, day |-> ObjSet(day, "date", PyDate(FromIso(text.v))),
                   error |-> ""]

\* deserialize_month: what the loop over data.get('days', []) leaves or raises
ConvertDays(days) ==
    IF days.t # "arr"
    THEN IF (days.t = "obj" /\ Len(days.v) = 0) \/ (days.t = "str" /\ days.v = "")
         THEN [ok |-> TRUE, days |-> days, error |-> ""]
         ELSE [ok |-> FALSE, days |-> days, error |-> "TypeError"]
    ELSE LET conv == Map(days.v, ConvertDay)
             bad  == {i \in 1..Len(conv) : ~conv[i].ok}
         IN  IF bad = {}
             THEN [ok |-> TRUE, days |-> JArr(Map(conv, LAMBDA c : c.day)), error |-> ""]
             ELSE [ok |-> FALSE, days |-> days,
                   error |-> conv[CHOOSE i \in bad : \A j \in bad : i <= j].error]

\* deserialize_month: the dictionary returned, or the exception that leaves it
\* (JSONDecodeError, ValueError and KeyError leave as ValueError, the others as
\* they are)
DeserializeMonth(text) ==
    LET parsed == Loads(text)
        data   == parsed.val
    IN  IF ~parsed.ok THEN [status |-> "raised", error |-> "ValueError"]
        ELSE IF data.t # "obj" THEN [status |-> "raised", error |-> "AttributeError"]
        ELSE LET conv == ConvertDays(ObjGet(data, "days", JArr(<<>>)))
             IN  IF ~conv.ok
                 THEN [status |-> "raised",
                       error |-> IF conv.error \in {"ValueError", "KeyError"}
                                 THEN "ValueError" ELSE conv.error]
                 ELSE [status |-> "returned",
                       value |-> [days     |-> conv.days,
                                  settings |-> ObjGet(data, "settings", JObj(<<>>)),
                                  summary  |-> ObjGet(data, "summary", JObj(<<>>)),
                                  version  |-> ObjGet(data, "version", JStr("1.0"))]]

\* ------------------------------------------------------- app: week slices
\* calendar.Calendar(firstweekday).monthdatescalendar(year, month): the dates of
\* the month with the days of the months before and after that complete its
\* first and last week, each made a datetime.date, in weeks of 7.

PrevMonth(y, m) == IF m = 1 THEN <<y - 1, 12>> ELSE <<y, m - 1>>

NextMonth(y, m) == IF m = 12 THEN <<y + 1, 1>> ELSE <<y, m + 1>>

\* itermonthdays3: (year, month, day) of every slot of the month's weeks
MonthDays3(y, m, firstweekday) ==
    LET day1   == Weekday(<<y, m, 1>>)
        ndays  == DaysInMonth(y, m)
        before == (day1 - firstweekday + 7) % 7
        after  == (firstweekday - day1 - ndays + 42) % 7
        pm     == PrevMonth(y, m)
        nm     == NextMonth(y, m)
        end    == DaysInMonth(pm[1], pm[2]) + 1
    IN  [k \in 1..before |-> <<pm[1], pm[2], end - before + k - 1>>]
            \o [d \in 1..ndays |-> <<y, m, d>>]
            \o [d \in 1..after |-> <<nm[1], nm[2], d>>]

\* datetime.date(y, m, d) raises ValueError outside the years 1..9999
ValidDate(d) ==
    d[1] \in 1..9999 /\ d[2] \in 1..12 /\ d[3] \in 1..DaysInMonth(d[1], d[2])

\* the slots cut into weeks, or the ValueError of a slot that is no date
WeeksOf(slots) ==
    IF \E k \in 1..Len(slots) : ~ValidDate(slots[k])
    THEN [raises |-> TRUE, weeks |-> <<>>]
    ELSE [raises |-> FALSE,
          weeks  |-> [i \in 1..(Len(slots) \div 7) |-> SubSeq(slots, 7 * i - 6, 7 * i)]]

\* mutant of BuildWeeks: weeks that start on Sunday
BuildWeeks_SundayFirst(y, m) == WeeksOf(MonthDays3(y, m, 6))

\* build_weeks
BuildWeeks(y, m) == WeeksOf(MonthDays3(y, m, 0))

\* ---------------------------------------------------------------- state

VARIABLES
    settingsTbl,   \* the settings table
    daysTbl,       \* the days table
    daysUnique,    \* whether the days table holds (user_id, date) unique
    last,          \* Spec: the call made last, its arguments and what it returned
    nops,          \* Spec: the calls made so far
    pc,            \* SpecConc: each session's position in its call
    call,          \* SpecConc: each session's call in progress, or made last
    loc,           \* SpecConc: each session's local variables
    ncalls,        \* SpecConc: the calls each session has started
    made,          \* SpecConc: the operations started so far
    input,         \* SpecCalc: the function of calc.py applied and its arguments
    output         \* SpecCalc: what the function returned or raised

tables == <<settingsTbl, daysTbl, daysUnique>>

seqVars == <<last, nops>>

concVars == <<pc, call, loc, ncalls, made>>

calcVars == <<input, output>>

vars == <<settingsTbl, daysTbl, daysUnique, last, nops, pc, call, loc, ncalls, made,
          input, output>>

Sessions == {1, 2}

NoCall == [op |-> "none"]

\* no function of calc.py applied
NoInput == [fn |-> "none"]

\* the function has not returned yet
Pending == [status |-> "pending"]

Init ==
    /\ settingsTbl = <<>>
    /\ daysTbl = <<>>
    /\ daysUnique \in BOOLEAN
    /\ last = NoCall
    /\ nops = 0
    /\ pc = [p \in Sessions |-> "idle"]
    /\ call = [p \in Sessions |-> NoCall]
    /\ loc = [p \in Sessions |-> <<>>]
    /\ ncalls = [p \in Sessions |-> 0]
    /\ made = {}
    /\ input = NoInput
    /\ output = Pending

\* ------------------------------------------------------- inputs of Spec

Months == {<<2024, 2>>, <<2024, 3>>}

\* the settings edit of render_sidebar sends these four fields
SettingsInputs ==
    {[required_percent |-> 50, rounding_mode |-> "floor",
      monfri_holiday_treatment |-> "credit", credit_weekdays |-> <<"MON", "WED">>]}

\* (date, fields) of upsert_day: a status edit of a holiday Monday, an import
\* record for a Saturday, a status edit with a note for a Tuesday
DayInputs ==
    {<<<<2024, 2, 19>>, [status |-> "IN_OFFICE"]>>,
     <<<<2024, 3, 2>>, [status |-> "TRAINING", is_holiday |-> TRUE,
                        holiday_name |-> "Local", notes |-> "imported"]>>,
     <<<<2024, 3, 5>>, [status |-> "WFH", notes |-> "home"]>>}

\* (start, end) of bulk_set_vacation: a span with both weekends, a span over
\* the month's end, a span of more than a year
BulkRanges ==
    {<<<<2024, 3, 2>>, <<2024, 3, 10>>>>,
     <<<<2024, 2, 26>>, <<2024, 3, 3>>>>,
     <<<<2024, 2, 1>>, <<2025, 3, 1>>>>}

\* (start, end) of the vacation helper: Mon-Fri, reversed, 365 days, 366 days
HelperRanges ==
    {<<<<2024, 3, 4>>, <<2024, 3, 8>>>>,
     <<<<2024, 3, 8>>, <<2024, 3, 4>>>>,
     <<<<2024, 3, 4>>, <<2025, 3, 4>>>>,
     <<<<2024, 3, 4>>, <<2025, 3, 5>>>>}

\* ------------------------------------------------------ actions of Spec

CanCall == nops < MaxOps

Record(c) ==
    /\ nops' = nops + 1
    /\ last' = c
    /\ UNCHANGED <<daysUnique, pc, call, loc, ncalls, made, input, output>>

DoGetSettings(u) ==
    /\ CanCall
    /\ LET r == GetSettings(settingsTbl, u, NoFault)
       IN  /\ settingsTbl' = r.tbl
           /\ UNCHANGED daysTbl
           /\ Record([op |-> "get_settings", u |-> u, ret |-> r.ret,
                      had |-> SelectSettings(settingsTbl, u) # <<>>])

DoUpsertSettings(u, fields) ==
    /\ CanCall
    /\ settingsTbl' = UpsertSettings(settingsTbl, u, fields, NoFault)
    /\ UNCHANGED daysTbl
    /\ Record([op |-> "upsert_settings", u |-> u, fields |-> fields])

\* whether call c is a get_month_days(u, y, m) that found no row and seeded the month
JustSeeded(c, u, y, m) ==
    /\ c.op = "get_month_days"
    /\ c.u = u /\ c.y = y /\ c.m = m
    /\ c.found = 0
    /\ c.ret # <<>>

DoGetMonthDays(u, y, m) ==
    /\ CanCall
    /\ LET r == GetMonthDays(settingsTbl, daysTbl, u, y, m, NoFault, daysUnique)
       IN  /\ settingsTbl' = r.settings
           /\ daysTbl' = r.days
           /\ Record([op |-> "get_month_days", u |-> u, y |-> y, m |-> m,
                      ret |-> r.ret, found |-> r.found,
                      again |-> JustSeeded(last, u, y, m)])

DoUpsertDay(u, d, fields) ==
    /\ CanCall
    /\ daysTbl' = UpsertDay(daysTbl, u, d, fields, NoFault, daysUnique)
    /\ UNCHANGED settingsTbl
    /\ Record([op |-> "upsert_day", u |-> u, d |-> d, fields |-> fields])

DoBulkSetVacation(u, s, e) ==
    /\ CanCall
    /\ LET r == BulkSetVacation(daysTbl, u, s, e, NoFault)
       IN  /\ daysTbl' = r.days
           /\ UNCHANGED settingsTbl
           /\ Record([op |-> "bulk_set_vacation", u |-> u, s |-> s, e |-> e,
                      ret |-> r.ret])

\* st.session_state.user_id = 'rachel': the owner the app's handlers act for
SessionOwner == "rachel"

\* the "Set Vacation Range" button of render_sidebar
VacationHelper(dtbl, u, s, e) ==
    IF ValidateDateRange(s, e)
    THEN [days |-> BulkSetVacation(dtbl, u, s, e, NoFault).days, shown |-> "success"]
    ELSE [days |-> dtbl, shown |-> "Invalid date range"]

DoVacationHelper(s, e) ==
    /\ CanCall
    /\ LET r == VacationHelper(daysTbl, SessionOwner, s, e)
       IN  /\ daysTbl' = r.days
           /\ UNCHANGED settingsTbl
           /\ Record([op |-> "vacation_helper", u |-> SessionOwner, s |-> s, e |-> e,
                      shown |-> r.shown])

Next ==
    \/ \E u \in Owners : DoGetSettings(u)
    \/ \E u \in Owners, f \in SettingsInputs : DoUpsertSettings(u, f)
    \/ \E u \in Owners, ym \in Months : DoGetMonthDays(u, ym[1], ym[2])
    \/ \E u \in Owners, i \in DayInputs : DoUpsertDay(u, i[1], i[2])
    \/ \E u \in Owners, r \in BulkRanges : DoBulkSetVacation(u, r[1], r[2])
    \/ \E r \in HelperRanges : DoVacationHelper(r[1], r[2])

Spec == Init /\ [][Next]_vars

\* --------------------------------------------------- inputs of SpecConc

ConcOwner == "bob"

ConcDate == <<2024, 3, 5>>

ConcCalls ==
    {[op |-> "upsert_day", u |-> ConcOwner, d |-> ConcDate, fields |-> [status |-> "IN_OFFICE"]],
     [op |-> "upsert_day", u |-> ConcOwner, d |-> ConcDate, fields |-> [status |-> "WFH"]],
     [op |-> "get_month_days", u |-> ConcOwner, y |-> 2024, m |-> 3],
     [op |-> "get_settings", u |-> ConcOwner],
     [op |-> "upsert_settings", u |-> ConcOwner, fields |-> CHOOSE f \in SettingsInputs : TRUE]}

\* the first storage call of each operation
FirstStep(op) ==
    [upsert_day |-> "ud_update", get_month_days |-> "md_select",
     get_settings |-> "gs_select", upsert_settings |-> "us_update"][op]

\* ---------------------------------------------------- actions of SpecConc
\* One action per storage call; between two of them the other session may run.

Goto(p, label, locals) ==
    /\ pc' = [pc EXCEPT ![p] = label]
    /\ loc' = [loc EXCEPT ![p] = locals]
    /\ UNCHANGED <<daysUnique, last, nops, call, ncalls, made, input, output>>

Start(p, c) ==
    /\ pc[p] = "idle"
    /\ ncalls[p] < MaxCalls
    /\ pc' = [pc EXCEPT ![p] = FirstStep(c.op)]
    /\ call' = [call EXCEPT ![p] = c]
    /\ loc' = [loc EXCEPT ![p] = <<>>]
    /\ ncalls' = [ncalls EXCEPT ![p] = @ + 1]
    /\ made' = made \cup {c.op}
    /\ UNCHANGED <<settingsTbl, daysTbl, daysUnique, last, nops, input, output>>

\* get_settings: the select
GsSelect(p) ==
    /\ pc[p] = "gs_select"
    /\ UNCHANGED <<settingsTbl, daysTbl>>
    /\ LET sel == SelectSettings(settingsTbl, call[p].u)
       IN  IF sel # <<>>
           THEN Goto(p, "idle", [ret |-> ParseSettings(sel[1])])
           ELSE Goto(p, "gs_insert", <<>>)

\* get_settings: the insert of the defaults
GsInsert(p) ==
    /\ pc[p] = "gs_insert"
    /\ LET r == GetSettingsCreate(settingsTbl, call[p].u, NoFault)
       IN  /\ settingsTbl' = r.tbl
           /\ UNCHANGED daysTbl
           /\ Goto(p, "idle", [ret |-> r.ret])

\* upsert_settings: the update
UsUpdate(p) ==
    /\ pc[p] = "us_update"
    /\ LET upd == UpdateSettings(settingsTbl, call[p].u,
                                 SettingsFieldsToColumns(call[p].fields))
       IN  /\ settingsTbl' = upd.tbl
           /\ UNCHANGED daysTbl
           /\ Goto(p, IF upd.data # <<>> THEN "idle" ELSE "us_insert", <<>>)

\* upsert_settings: the insert
UsInsert(p) ==
    /\ pc[p] = "us_insert"
    /\ settingsTbl' = UpsertSettingsCreate(settingsTbl, call[p].u,
                          SettingsFieldsToColumns(call[p].fields), NoFault)
    /\ UNCHANGED daysTbl
    /\ Goto(p, "idle", <<>>)

\* upsert_day: the update
UdUpdate(p) ==
    /\ pc[p] = "ud_update"
    /\ LET upd == UpdateDay(daysTbl, call[p].u, call[p].d, call[p].fields)
       IN  /\ daysTbl' = upd.tbl
           /\ UNCHANGED settingsTbl
           /\ Goto(p, IF upd.data # <<>> THEN "idle" ELSE "ud_insert", <<>>)

\* upsert_day: the insert
UdInsert(p) ==
    /\ pc[p] = "ud_insert"
    /\ daysTbl' = UpsertDayCreate(daysTbl, call[p].u, call[p].d, call[p].fields,
                                  NoFault, daysUnique)
    /\ UNCHANGED settingsTbl
    /\ Goto(p, "idle", <<>>)

\* get_month_days: the select of the month's rows
MdSelect(p) ==
    /\ pc[p] = "md_select"
    /\ UNCHANGED <<settingsTbl, daysTbl>>
    /\ Goto(p, "md_gs_select",
            [found |-> SelectMonth(daysTbl, call[p].u, call[p].y, call[p].m)])

\* get_month_days: the select of its get_settings
MdGsSelect(p) ==
    /\ pc[p] = "md_gs_select"
    /\ UNCHANGED <<settingsTbl, daysTbl>>
    /\ LET sel == SelectSettings(settingsTbl, call[p].u)
       IN  IF sel # <<>>
           THEN Goto(p, "md_insert",
                     [found |-> loc[p].found, settings |-> ParseSettings(sel[1])])
           ELSE Goto(p, "md_gs_insert", loc[p])

\* get_month_days: the insert of its get_settings
MdGsInsert(p) ==
    /\ pc[p] = "md_gs_insert"
    /\ LET r == GetSettingsCreate(settingsTbl, call[p].u, NoFault)
       IN  /\ settingsTbl' = r.tbl
           /\ UNCHANGED daysTbl
           /\ Goto(p, "md_insert", [found |-> loc[p].found, settings |-> r.ret])

\* get_month_days: the insert of the missing, or of all, days
MdInsert(p) ==
    /\ pc[p] = "md_insert"
    /\ LET f == FillMonth(daysTbl, call[p].u, call[p].y, call[p].m, loc[p].found,
                          loc[p].settings, NoFault, daysUnique)
       IN  /\ daysTbl' = f.days
           /\ UNCHANGED settingsTbl
           /\ Goto(p, "idle", [ret |-> f.ret])

NextConc ==
    \/ \E p \in Sessions, c \in ConcCalls : Start(p, c)
    \/ \E p \in Sessions : GsSelect(p)
    \/ \E p \in Sessions : GsInsert(p)
    \/ \E p \in Sessions : UsUpdate(p)
    \/ \E p \in Sessions : UsInsert(p)
    \/ \E p \in Sessions : UdUpdate(p)
    \/ \E p \in Sessions : UdInsert(p)
    \/ \E p \in Sessions : MdSelect(p)
    \/ \E p \in Sessions : MdGsSelect(p)
    \/ \E p \in Sessions : MdGsInsert(p)
    \/ \E p \in Sessions : MdInsert(p)

SpecConc == Init /\ [][NextConc]_vars

\* ------------------------------------------------------ inputs of SpecCalc
\* The functions of calc.py are pure: SpecCalc draws a function and its
\* arguments in InitCalc and applies it.

\* the longest list of arbitrary day records
MaxDays == 2

\* the longest list of weekday records (the denominators of the rounding)
MaxWeekdays == 25

\* a week, Monday 2024-03-04 to Sunday 2024-03-10
CalcWeek == {<<2024, 3, day>> : day \in 4..10}

\* a Monday, a Wednesday and a Saturday
CalcDates == {<<2024, 3, 4>>, <<2024, 3, 6>>, <<2024, 3, 9>>}

\* a day record as get_month_days returns it (the columns compute_summary and
\* serialize_month read)
DayRecord(d, st, hol) ==
    [date |-> d, status |-> st, is_holiday |-> hol,
     holiday_name |-> IF hol THEN "Holiday" ELSE "", notes |-> ""]

\* every record of a date of CalcDates
DayRecords ==
    {DayRecord(d, st, hol) : d \in CalcDates, st \in Range(CalcStatuses), hol \in BOOLEAN}

\* the statuses of the records of the longer lists: two that do not count as
\* office and two that do
ListStatuses == {"NONE", "WFH", "IN_OFFICE", "VACATION"}

ListRecords == {r \in DayRecords : r.status \in ListStatuses}

DayLists ==
    UNION {[1..n -> ListRecords] : n \in 0..MaxDays} \cup {<<r>> : r \in DayRecords}

\* the weekdays of March and April 2024, in order
WeekdayDates ==
    SelectSeq(GridDates(2024, 3) \o GridDates(2024, 4), LAMBDA d : Weekday(d) < 5)

\* n weekday records of one status
WeekdayRun(n, st) == Map(SubSeq(WeekdayDates, 1, n), LAMBDA d : DayRecord(d, st, FALSE))

\* credit_weekdays: the subsets of MON..FRI, as the multiselect lists them
CreditWeekdayLists ==
    {SelectSeq(SubSeq(WeekdayTokens, 1, 5), LAMBDA t : t \in chosen) :
        chosen \in SUBSET Range(SubSeq(WeekdayTokens, 1, 5))}

Treatments == {"neutral", "exclude", "credit"}

RoundingModes == {"ceil", "floor", "round_half_up"}

\* required_percent, in hundredths
RoundingPercents == {0, 28, 50, 58, 60, 100}

\* a settings dictionary: the given fields, the rest as get_settings returns them
SettingsWith(fields) == fields @@ FallbackSettings(DefaultOwner)

\* settings of credited_holiday: every credit_weekdays and treatment, and a
\* dictionary that holds neither key
HolidaySettings ==
    {SettingsWith([credit_weekdays |-> c, monfri_holiday_treatment |-> t]) :
        c \in CreditWeekdayLists, t \in Treatments}
    \cup {[user_id |-> DefaultOwner]}

\* settings of compute_summary over arbitrary records: the Wednesday credited
\* or not, the Monday credited or not
SummarySettings ==
    {SettingsWith([credit_weekdays |-> ct[1], monfri_holiday_treatment |-> ct[2]]) :
        ct \in {<<DefaultCreditWeekdays, "neutral">>, <<DefaultCreditWeekdays, "credit">>,
                <<<<>>, "exclude">>, <<<<"MON">>, "neutral">>}}

RoundingSettings ==
    {SettingsWith([required_percent |-> p, rounding_mode |-> m]) :
        p \in RoundingPercents, m \in RoundingModes}

CreditedHolidayInputs ==
    {[fn |-> "credited_holiday", date |-> d, settings |-> s] :
        d \in CalcWeek, s \in HolidaySettings}

ComputeSummaryInputs ==
    {[fn |-> "compute_summary", days |-> ds, settings |-> s] :
        ds \in DayLists, s \in SummarySettings}
    \cup {[fn |-> "compute_summary", days |-> WeekdayRun(n, st), settings |-> s] :
            n \in 0..MaxWeekdays, st \in {"NONE", "IN_OFFICE"}, s \in RoundingSettings}
    \cup {[fn |-> "compute_summary", days |-> <<DayRecord(d, "IN_OFFICE", FALSE)>>,
           settings |-> s] : d \in CalcDates, s \in RoundingSettings}

\* day records to export: one without holiday_name and notes, a holiday with
\* a note, a Saturday with both empty, a leap day
ExportRecords ==
    {[date |-> <<2024, 3, 4>>, status |-> "IN_OFFICE", is_holiday |-> FALSE],
     [date |-> <<2024, 3, 4>>, status |-> "NONE", is_holiday |-> TRUE,
      holiday_name |-> "Holiday", notes |-> "note"],
     [date |-> <<2024, 3, 9>>, status |-> "WFH", is_holiday |-> FALSE,
      holiday_name |-> "", notes |-> ""],
     [date |-> <<2024, 2, 29>>, status |-> "VACATION", is_holiday |-> FALSE,
      holiday_name |-> "", notes |-> "trip"]}

ExportLists == UNION {[1..n -> ExportRecords] : n \in 0..MaxDays}

\* settings to export: the defaults, edited ones, and a dictionary without the
\* policy keys
ExportSettings ==
    {FallbackSettings(DefaultOwner),
     SettingsWith([required_percent |-> 50, rounding_mode |-> "floor",
                   credit_weekdays |-> <<"MON">>]),
     [user_id |-> "bob"]}

SerializeMonthInputs ==
    {[fn |-> "serialize_month", days |-> ds, settings |-> st,
      summary |-> ComputeSummary(ds, st)] : ds \in ExportLists, st \in ExportSettings}

\* an exported document of two days, and what a file may hold in its place
SampleExport ==
    LET days == <<DayRecord(<<2024, 3, 4>>, "IN_OFFICE", FALSE),
                  DayRecord(<<2024, 3, 9>>, "NONE", TRUE)>>
        st   == FallbackSettings(DefaultOwner)
    IN  ExportData(days, st, ComputeSummary(days, st))

\* the object without the key
ObjDel(obj, k) == JObj(SelectSeq(obj.v, LAMBDA m : m[1] # k))

\* the sample with its second day replaced
SampleWithDay(day) ==
    ObjSet(SampleExport, "days", JArr(<<ObjGet(SampleExport, "days", JNull).v[1], day>>))

SampleDay == ObjGet(SampleExport, "days", JNull).v[2]

\* files to import, each with what is wrong with it
ImportFiles ==
    {[defect |-> "none", text |-> Dumps(SampleExport)],
     [defect |-> "invalid json", text |-> <<>>],
     [defect |-> "invalid json",
      text |-> SubSeq(Dumps(SampleExport), 1, Len(Dumps(SampleExport)) - 1)],
     [defect |-> "invalid json", text |-> Dumps(SampleExport) \o <<Punct("}")>>],
     [defect |-> "invalid json", text |-> <<Punct("{"), JStr("version"), JStr("1.2"),
                                            Punct("}")>>],
     [defect |-> "not an object", text |-> Dumps(JArr(<<>>))],
     [defect |-> "days not a list", text |-> Dumps(ObjSet(SampleExport, "days", JNull))],
     [defect |-> "date not a string",
      text |-> Dumps(SampleWithDay(ObjSet(SampleDay, "date", JNum(20240309))))],
     [defect |-> "date not iso",
      text |-> Dumps(SampleWithDay(ObjSet(SampleDay, "date", JStr("soon"))))]}
    \cup {[defect |-> "no " \o k, text |-> Dumps(ObjDel(SampleExport, k))] :
            k \in {"version", "settings", "summary", "days"}}
    \cup {[defect |-> "day without " \o k,
           text |-> Dumps(SampleWithDay(ObjDel(SampleDay, k)))] :
            k \in {"date", "status", "is_holiday"}}
    \cup {[defect |-> "date not in calendar",
           text |-> Dumps(SampleWithDay(ObjSet(SampleDay, "date", JIso(n))))] :
            n \in {20240230, 20230229, 20241301, 20240300}}

DeserializeMonthInputs ==
    {[fn |-> "deserialize_month", text |-> f.text, defect |-> f.defect,
      source |-> "file", exported |-> <<>>] : f \in ImportFiles}

\* years of the calendar functions: the first and the last year a date can
\* have, a February of four weeks (2021), a leap year, a year after it
CalendarYears == {1, 2021, 2024, 2026, 9999}

MonthGridInputs ==
    {[fn |-> "month_grid", year |-> y, month |-> m] : y \in CalendarYears, m \in 1..12}

CalcInputs ==
    CreditedHolidayInputs \cup ComputeSummaryInputs
        \cup SerializeMonthInputs \cup DeserializeMonthInputs \cup MonthGridInputs

\* ----------------------------------------------------- actions of SpecCalc

Returned(v) == [status |-> "returned", value |-> v]

Raised(e) == [status |-> "raised", error |-> e]

InitCalc ==
    /\ settingsTbl = <<>>
    /\ daysTbl = <<>>
    /\ daysUnique = TRUE
    /\ last = NoCall
    /\ nops = 0
    /\ pc = [p \in Sessions |-> "idle"]
    /\ call = [p \in Sessions |-> NoCall]
    /\ loc = [p \in Sessions |-> <<>>]
    /\ ncalls = [p \in Sessions |-> 0]
    /\ made = {}
    /\ input \in CalcInputs
    /\ output = Pending

ApplyCreditedHoliday ==
    /\ input.fn = "credited_holiday"
    /\ output.status = "pending"
    /\ output' = Returned(CreditedHoliday(input.date, input.settings))
    /\ UNCHANGED <<tables, seqVars, concVars, input>>

ApplyComputeSummary ==
    /\ input.fn = "compute_summary"
    /\ output.status = "pending"
    /\ output' = Returned(ComputeSummary(input.days, input.settings))
    /\ UNCHANGED <<tables, seqVars, concVars, input>>

\* a record of the list shown is edited (status, holiday flag) and the summary
\* is computed again, as load_month_data does on every run
EditDayAndRecompute(i, st, hol) ==
    /\ input.fn = "compute_summary"
    /\ output.status = "returned"
    /\ Len(input.days) <= MaxDays
    /\ i \in 1..Len(input.days)
    /\ LET edited == [input.days EXCEPT ![i] = DayRecord(@.date, st, hol)]
       IN  /\ edited # input.days
           /\ input' = [input EXCEPT !.days = edited]
           /\ output' = Returned(ComputeSummary(edited, input.settings))
    /\ UNCHANGED <<tables, seqVars, concVars>>

ApplySerializeMonth ==
    /\ input.fn = "serialize_month"
    /\ output.status = "pending"
    /\ output' = Returned(SerializeMonth(input.days, input.settings, input.summary))
    /\ UNCHANGED <<tables, seqVars, concVars, input>>

\* the text exported is handed to the import as it is
ImportExported ==
    /\ input.fn = "serialize_month"
    /\ output.status = "returned"
    /\ input' = [fn |-> "deserialize_month", text |-> output.value, defect |-> "none",
                 source |-> "export", exported |-> input.days]
    /\ output' = Pending
    /\ UNCHANGED <<tables, seqVars, concVars>>

ApplyDeserializeMonth ==
    /\ input.fn = "deserialize_month"
    /\ output.status = "pending"
    /\ output' = DeserializeMonth(input.text)
    /\ UNCHANGED <<tables, seqVars, concVars, input>>

ApplyMonthGrid ==
    /\ input.fn = "month_grid"
    /\ output.status = "pending"
    /\ output' = Returned(MonthGrid(input.year, input.month))
    /\ UNCHANGED <<tables, seqVars, concVars, input>>

\* the week view is computed for the month whose grid was computed
ThenBuildWeeks ==
    /\ input.fn = "month_grid"
    /\ output.status = "returned"
    /\ input' = [fn |-> "build_weeks", year |-> input.year, month |-> input.month,
                 grid |-> output.value]
    /\ output' = Pending
    /\ UNCHANGED <<tables, seqVars, concVars>>

ApplyBuildWeeks ==
    /\ input.fn = "build_weeks"
    /\ output.status = "pending"
    /\ output' = LET r == BuildWeeks(input.year, input.month)
                 IN  IF r.raises THEN Raised("ValueError") ELSE Returned(r.weeks)
    /\ UNCHANGED <<tables, seqVars, concVars, input>>

NextCalc ==
    \/ ApplyMonthGrid
    \/ ThenBuildWeeks
    \/ ApplyBuildWeeks
    \/ ApplyCreditedHoliday
    \/ ApplyComputeSummary
    \/ ApplySerializeMonth
    \/ ImportExported
    \/ ApplyDeserializeMonth
    \/ \E i \in 1..MaxDays, st \in ListStatuses, hol \in BOOLEAN :
          EditDayAndRecompute(i, st, hol)

SpecCalc == InitCalc /\ [][NextCalc]_vars
\* ----------------------------------------------------- inputs of SpecFault
\* SpecFault makes the calls of Spec with one storage call, or the holiday
\* lookup, of each call failing.

\* whole calls per behaviour of SpecFault
MaxFaultOps == 2

\* the storage calls of each operation, and the holiday lookup of get_month_days
StorageCalls ==
    [get_settings      |-> {"sel_settings", "ins_settings"},
     upsert_settings   |-> {"upd_settings", "ins_settings"},
     get_month_days    |-> {"sel_days", "sel_settings", "ins_settings", "ins_days"},
     upsert_day        |-> {"upd_days", "ins_days"},
     bulk_set_vacation |-> {"upd_days"}]

\* what may fail in a call of the operation
FaultsOf(op) ==
    {NoFault} \cup StorageCalls[op] \cup (IF op = "get_month_days" THEN {"holidays"} ELSE {})

\* a country code holidays.country_holidays does not know
UnknownCountry == "Atlantis"

FaultSettingsInputs == SettingsInputs \cup {[country |-> UnknownCountry]}

FaultMonth == <<2024, 2>>

FaultDayInputs == {i \in DayInputs : i[1][2] = 2}

FaultBulkRanges == {r \in BulkRanges : DaysBetween(r[1], r[2]) < 10}

\* ---------------------------------------------------- actions of SpecFault

CanFault == nops < MaxFaultOps

FaultGetSettings(u, f) ==
    /\ CanFault
    /\ LET r == GetSettings(settingsTbl, u, f)
       IN  /\ settingsTbl' = r.tbl
           /\ UNCHANGED daysTbl
           /\ Record([op |-> "get_settings", u |-> u, fault |-> f, ret |-> r.ret])

FaultUpsertSettings(u, fields, f) ==
    /\ CanFault
    /\ settingsTbl' = UpsertSettings(settingsTbl, u, fields, f)
    /\ UNCHANGED daysTbl
    /\ Record([op |-> "upsert_settings", u |-> u, fault |-> f, fields |-> fields])

\* oracle: whether the call reached holidays.country_holidays and it raised
FaultGetMonthDays(u, y, m, f) ==
    /\ CanFault
    /\ \E r \in {GetMonthDays(settingsTbl, daysTbl, u, y, m, f, daysUnique)},
          gs \in {GetSettings(settingsTbl, u, f)} :
          /\ settingsTbl' = r.settings
          /\ daysTbl' = r.days
          /\ Record([op |-> "get_month_days", u |-> u, y |-> y, m |-> m, fault |-> f,
                     ret |-> r.ret, found |-> r.found,
                     oracle |-> f # "sel_days" /\ OracleRaises(gs.ret, f)])

FaultUpsertDay(u, d, fields, f) ==
    /\ CanFault
    /\ daysTbl' = UpsertDay(daysTbl, u, d, fields, f, daysUnique)
    /\ UNCHANGED settingsTbl
    /\ Record([op |-> "upsert_day", u |-> u, d |-> d, fault |-> f, fields |-> fields])

FaultBulkSetVacation(u, s, e, f) ==
    /\ CanFault
    /\ LET r == BulkSetVacation(daysTbl, u, s, e, f)
       IN  /\ daysTbl' = r.days
           /\ UNCHANGED settingsTbl
           /\ Record([op |-> "bulk_set_vacation", u |-> u, s |-> s, e |-> e,
                      fault |-> f, ret |-> r.ret])

\* load_month_data: settings = db.get_settings(), days = db.get_month_days(..),
\* summary = calc.compute_summary(days, settings); f1 fails in the first call,
\* f2 in the second
FaultLoadMonthData(y, m, f1, f2) ==
    /\ CanFault
    /\ f1 = NoFault \/ f2 = NoFault
    /\ \E gs \in {GetSettings(settingsTbl, DefaultOwner, f1)} :
       \E md \in {GetMonthDays(gs.tbl, daysTbl, SessionOwner, y, m, f2, daysUnique)} :
       \E summary \in {ComputeSummary(md.ret, gs.ret)} :
          /\ settingsTbl' = md.settings
          /\ daysTbl' = md.days
          /\ Record([op |-> "load_month_data", u |-> SessionOwner, y |-> y, m |-> m,
                     fault |-> IF f1 # NoFault THEN f1 ELSE f2,
                     ret |-> [settings |-> gs.ret, days |-> md.ret,
                              summary |-> summary]])

NextFault ==
    \/ \E u \in Owners, f \in FaultsOf("get_settings") : FaultGetSettings(u, f)
    \/ \E u \in Owners, x \in FaultSettingsInputs, f \in FaultsOf("upsert_settings") :
          FaultUpsertSettings(u, x, f)
    \/ \E u \in Owners, f \in FaultsOf("get_month_days") :
          FaultGetMonthDays(u, FaultMonth[1], FaultMonth[2], f)
    \/ \E u \in Owners, i \in FaultDayInputs, f \in FaultsOf("upsert_day") :
          FaultUpsertDay(u, i[1], i[2], f)
    \/ \E u \in Owners, r \in FaultBulkRanges, f \in FaultsOf("bulk_set_vacation") :
          FaultBulkSetVacation(u, r[1], r[2], f)
    \/ \E f1 \in FaultsOf("get_settings"), f2 \in FaultsOf("get_month_days") :
          FaultLoadMonthData(FaultMonth[1], FaultMonth[2], f1, f2)

SpecFault == Init /\ [][NextFault]_vars

\* ---------------------------------------------------- inputs of SpecImport
\* SpecImport makes the calls that write day records, the import of
\* render_export_import among them.

\* whole calls per behaviour of SpecImport
MaxImportOps == 2

ImportMonth == <<2024, 3>>

ImportDayInputs == {i \in DayInputs : i[1][2] = 3}

ImportBulkRanges == {r \in BulkRanges : DaysBetween(r[1], r[2]) < 10}

\* --------------------------------------------------- actions of SpecImport

\* the fields the import sends for a day of the document
ImportFields(day) ==
    [status       |-> ObjGet(day, "status", JNull).v,
     is_holiday   |-> ObjGet(day, "is_holiday", JNull).v,
     holiday_name |-> ObjGet(day, "holiday_name", JStr("")).v,
     notes        |-> ObjGet(day, "notes", JStr("")).v]

\* the loop of the import over the days from the i-th on: one upsert_day for
\* each day, until a day without status or is_holiday raises KeyError
RECURSIVE ImportDays(_, _, _, _, _)
ImportDays(dtbl, days, i, n, unique) ==
    IF i > Len(days)
    THEN [days |-> dtbl, shown |-> "success", upserts |-> n]
    ELSE IF ~(\A k \in {"date", "status", "is_holiday"} : ObjHas(days[i], k))
    THEN [days |-> dtbl, shown |-> "error", upserts |-> n]
    ELSE ImportDays(UpsertDay(dtbl, SessionOwner, ObjGet(days[i], "date", JNull).v,
                              ImportFields(days[i]), NoFault, unique),
                    days, i + 1, n + 1, unique)

\* mutant of Import: the days are written without the confirmation
Import_WithoutConfirmation(dtbl, text, confirmed, unique) ==
    LET doc == DeserializeMonth(text)
    IN  IF doc.status = "raised"
        THEN [days |-> dtbl, shown |-> "error", upserts |-> 0]
        ELSE ImportDays(dtbl, doc.value.days.v, 1, 0, unique)

\* the import of render_export_import for an uploaded text: the days table
\* afterwards, what is shown and the upsert_day calls made
Import(dtbl, text, confirmed, unique) ==
    LET doc == DeserializeMonth(text)
    IN  IF doc.status = "raised"
        THEN [days |-> dtbl, shown |-> "error", upserts |-> 0]
        ELSE IF ~confirmed
        THEN [days |-> dtbl, shown |-> "", upserts |-> 0]
        ELSE ImportDays(dtbl, doc.value.days.v, 1, 0, unique)

CanImport == nops < MaxImportOps

DoImport(text, confirmed) ==
    /\ CanImport
    /\ LET r == Import(daysTbl, text, confirmed, daysUnique)
       IN  /\ daysTbl' = r.days
           /\ UNCHANGED settingsTbl
           /\ Record([op |-> "import", u |-> SessionOwner, text |-> text,
                      confirmed |-> confirmed, shown |-> r.shown,
                      upserts |-> r.upserts])

NextImport ==
    \/ \E f \in ImportFiles, c \in BOOLEAN : DoImport(f.text, c)
    \/ \E u \in Owners : CanImport /\ DoGetMonthDays(u, ImportMonth[1], ImportMonth[2])
    \/ \E u \in Owners, i \in ImportDayInputs : CanImport /\ DoUpsertDay(u, i[1], i[2])
    \/ \E u \in Owners, r \in ImportBulkRanges :
          CanImport /\ DoBulkSetVacation(u, r[1], r[2])

SpecImport == Init /\ [][NextImport]_vars

\* ------------------------------------------------------------- the claims

\* the rows of a table held for (owner, date)
RowsFor(dtbl, u, d) ==
    SelectSeq(dtbl, LAMBDA r : r.user_id = u /\ r.date = IsoFormat(d))

Quiescent == \A p \in Sessions : pc[p] = "idle"

\* C1: when upsert_day calls for the same (owner, date), with different
\* statuses, have run in any interleaving of their storage calls, and nothing
\* else has run, the days table holds exactly one row for that date, with one
\* of the statuses written.
C1_ConcurrentUpsertDayLeavesOneRecord ==
    (/\ Quiescent
     /\ made = {"upsert_day"}
     /\ \A p \in Sessions : ncalls[p] >= 1
     /\ call[1].fields # call[2].fields) =>
        LET rows == RowsFor(daysTbl, ConcOwner, ConcDate)
        IN  /\ Len(rows) = 1
            /\ rows[1].status \in {"IN_OFFICE", "WFH"}

\* C2: in every state reached by whole, non-overlapping calls the days table
\* holds at most one row per (owner, date).
C2_AtMostOneRecordPerOwnerDate ==
    Cardinality({<<daysTbl[i].user_id, daysTbl[i].date>> : i \in 1..Len(daysTbl)})
        = Len(daysTbl)

\* C2's case: upsert_day wrote a date of a month never seeded, and
\* get_month_days of that month then backfilled the other days.
C2_Witness ==
    /\ last.op = "get_month_days"
    /\ last.found = 1
    /\ Len(last.ret) = DaysInMonth(last.y, last.m)
    /\ Len(SelectMonth(daysTbl, last.u, last.y, last.m)) = DaysInMonth(last.y, last.m)

\* C3: when get_month_days calls for one (owner, year, month), or such a call
\* and upsert_day calls for a date of the month, have run in any interleaving
\* of their storage calls, the days table holds exactly one row for every
\* calendar day of the month.
C3_ConcurrentReadRepairLeavesOneRecordPerDay ==
    (/\ Quiescent
     /\ "get_month_days" \in made
     /\ made \subseteq {"get_month_days", "upsert_day"}) =>
        \A day \in 1..DaysInMonth(2024, 3) :
            Len(RowsFor(daysTbl, ConcOwner, <<2024, 3, day>>)) = 1
\* a step of Spec: one whole call, recorded in last'
Called(op) == nops' = nops + 1 /\ last'.op = op

\* the set of records of a list
AsSet(recs) == {recs[i] : i \in 1..Len(recs)}

\* C4: a get_month_days that follows at once the get_month_days that seeded
\* the same (owner, year, month) returns the same set of records as that call
\* did and writes nothing to either table.
C4_GetMonthDaysIdempotentAfterSeed ==
    [][(Called("get_month_days") /\ last'.again) =>
          /\ daysTbl' = daysTbl
          /\ settingsTbl' = settingsTbl
          /\ AsSet(last'.ret) = AsSet(last.ret)
          /\ Len(last'.ret) = Len(last.ret)]_vars

\* C4's case: the second of two successive calls for a month the first seeded
C4_Witness ==
    /\ last.op = "get_month_days"
    /\ last.again
    /\ last.found = DaysInMonth(last.y, last.m)
    /\ Len(last.ret) = DaysInMonth(last.y, last.m)

\* the policy fields of a settings dictionary, credit_weekdays as a set
Policy(st) ==
    [required_percent |-> st.required_percent,
     rounding_mode |-> st.rounding_mode,
     credit_weekdays |-> AsSet(st.credit_weekdays),
     monfri_holiday_treatment |-> st.monfri_holiday_treatment]

DocumentedDefaults ==
    [required_percent |-> 60,
     rounding_mode |-> "ceil",
     credit_weekdays |-> {"TUE", "WED", "THU"},
     monfri_holiday_treatment |-> "neutral"]

C6_GetSettingsCreatesDefaultsOnce ==
    [][/\ Called("get_settings") =>
            LET u      == last'.u
                before == SelectSettings(settingsTbl, u)
                after  == SelectSettings(settingsTbl', u)
            IN  /\ Len(after) = 1
                /\ Policy(last'.ret) = Policy(ParseSettings(after[1]))
                /\ before = <<>> =>
                      /\ Len(settingsTbl') = Len(settingsTbl) + 1
                      /\ Policy(last'.ret) = DocumentedDefaults
                /\ before # <<>> => settingsTbl' = settingsTbl
       /\ (nops' = nops + 1 /\ last'.op # "upsert_settings") =>
            \A i \in 1..Len(settingsTbl) : settingsTbl'[i] = settingsTbl[i]]_vars

\* C6's case: a later get_settings, for an owner whose row an earlier call
\* created with the defaults
C6_Witness ==
    /\ last.op = "get_settings"
    /\ last.had
    /\ Policy(last.ret) = DocumentedDefaults
    /\ Len(SelectSettings(settingsTbl, last.u)) = 1

\* the status the claim gives a seeded day
ClaimedSeedStatus(u, d) ==
    IF u = "rachel"
    THEN CASE Weekday(d) \in {0, 4} -> "WFH"
           [] Weekday(d) \in {1, 2, 3} -> "IN_OFFICE"
           [] OTHER -> "NONE"
    ELSE "NONE"

\* C7: a get_month_days for a month in which the owner has no row leaves
\* exactly one row for every calendar day of the month, weekend days included,
\* with status NONE for an ordinary owner and, for the default owner, WFH on
\* Mon and Fri, IN_OFFICE on Tue, Wed and Thu, NONE on Sat and Sun; it returns
\* those rows and leaves every other row as it was.
C7_AutoSeedOneRecordPerCalendarDay ==
    [][(/\ Called("get_month_days")
        /\ \A i \in 1..Len(daysTbl) :
              ~(/\ daysTbl[i].user_id = last'.u
                /\ daysTbl[i].date \div 100 = last'.y * 100 + last'.m)) =>
          LET u     == last'.u
              y     == last'.y
              m     == last'.m
              added == (Len(daysTbl) + 1)..Len(daysTbl')
          IN  /\ Len(daysTbl') = Len(daysTbl) + DaysInMonth(y, m)
              /\ \A i \in 1..Len(daysTbl) : daysTbl'[i] = daysTbl[i]
              /\ {daysTbl'[i].date : i \in added} =
                    {y * 10000 + m * 100 + day : day \in 1..DaysInMonth(y, m)}
              /\ \A i \in added :
                    /\ daysTbl'[i].user_id = u
                    /\ daysTbl'[i].status = ClaimedSeedStatus(u, FromIso(daysTbl'[i].date))
              /\ {last'.ret[i] : i \in 1..Len(last'.ret)} =
                    {ParseDay(daysTbl'[i]) : i \in added}
              /\ Len(last'.ret) = DaysInMonth(y, m)]_vars

\* C7's case: the default owner's February 2024 seeded, 29 rows, the Saturday
\* 2024-02-03 among them
C7_Witness ==
    /\ last.op = "get_month_days"
    /\ last.found = 0
    /\ last.u = "rachel"
    /\ last.m = 2
    /\ Len(last.ret) = 29
    /\ \E r \in AsSet(last.ret) : r.date = <<2024, 2, 3>> /\ r.status = "NONE"
    /\ \E r \in AsSet(last.ret) : r.date = <<2024, 2, 19>> /\ r.status = "WFH"

\* C8: a get_month_days for a month in which some but not all calendar days
\* have a row appends one row with status NONE for each missing day and for
\* no other, leaves every existing row as it was, and returns one record for
\* each calendar day of the month.
C8_BackfillCreatesExactlyTheMissingDays ==
    [][Called("get_month_days") =>
          LET u       == last'.u
              y       == last'.y
              m       == last'.m
              monthOf == {y * 10000 + m * 100 + day : day \in 1..DaysInMonth(y, m)}
              had     == {daysTbl[i].date : i \in
                            {j \in 1..Len(daysTbl) : /\ daysTbl[j].user_id = u
                                                     /\ daysTbl[j].date \in monthOf}}
              added   == (Len(daysTbl) + 1)..Len(daysTbl')
          IN  (had # {} /\ had # monthOf) =>
                /\ \A i \in 1..Len(daysTbl) : daysTbl'[i] = daysTbl[i]
                /\ {daysTbl'[i].date : i \in added} = monthOf \ had
                /\ Len(daysTbl') = Len(daysTbl) + Cardinality(monthOf \ had)
                /\ \A i \in added :
                      daysTbl'[i].user_id = u /\ daysTbl'[i].status = "NONE"
                /\ {IsoFormat(last'.ret[i].date) : i \in 1..Len(last'.ret)} = monthOf
                /\ Len(last'.ret) = DaysInMonth(y, m)]_vars

\* C8's case: the default owner's March 2024 held only the imported Saturday
\* 2024-03-02, which kept its fields, and the other 30 days were backfilled
C8_Witness ==
    /\ last.op = "get_month_days"
    /\ last.u = "rachel"
    /\ last.found = 1
    /\ Len(last.ret) = 31
    /\ \E r \in AsSet(last.ret) :
          /\ r.date = <<2024, 3, 2>>
          /\ r.status = "TRAINING" /\ r.is_holiday /\ r.holiday_name = "Local"
          /\ r.notes = "imported"
    /\ \E r \in AsSet(last.ret) : r.date = <<2024, 3, 4>> /\ r.status = "NONE"

\* C9: bulk_set_vacation(owner, start, end) sets status VACATION on every row
\* of that owner dated in [start, end], weekdays and weekend days alike,
\* changes no other column and no other row, adds no row, and returns the
\* number of rows it set.
C9_BulkSetVacationFrame ==
    [][Called("bulk_set_vacation") =>
          LET u == last'.u
              inRange(r) == /\ r.user_id = u
                            /\ r.date >= IsoFormat(last'.s)
                            /\ r.date <= IsoFormat(last'.e)
          IN  /\ Len(daysTbl') = Len(daysTbl)
              /\ \A i \in 1..Len(daysTbl) :
                    daysTbl'[i] = IF inRange(daysTbl[i])
                                  THEN [daysTbl[i] EXCEPT !.status = "VACATION"]
                                  ELSE daysTbl[i]
              /\ last'.ret = Cardinality({i \in 1..Len(daysTbl) : inRange(daysTbl[i])})]_vars

\* C9's case: 2024-03-02 to 2024-03-10 over a seeded March: nine rows set, the
\* Saturday and the Sunday among them, the rows outside the span kept
C9_Witness ==
    /\ last.op = "bulk_set_vacation"
    /\ last.s = <<2024, 3, 2>>
    /\ last.ret = 9
    /\ RowsFor(daysTbl, last.u, <<2024, 3, 2>>)[1].status = "VACATION"
    /\ RowsFor(daysTbl, last.u, <<2024, 3, 10>>)[1].status = "VACATION"
    /\ RowsFor(daysTbl, last.u, <<2024, 3, 11>>)[1].status # "VACATION"
    /\ RowsFor(daysTbl, last.u, <<2024, 3, 1>>)[1].status # "VACATION"

C11_UpsertDayFrame ==
    [][Called("upsert_day") =>
          LET f      == last'.fields
              hit(r) == r.user_id = last'.u /\ r.date = IsoFormat(last'.d)
              n      == Len(daysTbl)
          IN  /\ settingsTbl' = settingsTbl
              /\ \A i \in 1..n : \A c \in DaysColumns :
                    daysTbl'[i][c] = IF hit(daysTbl[i]) /\ c \in DOMAIN f
                                     THEN f[c] ELSE daysTbl[i][c]
              /\ IF \E i \in 1..n : hit(daysTbl[i])
                 THEN Len(daysTbl') = n
                 ELSE /\ Len(daysTbl') = n + 1
                      /\ daysTbl'[n + 1].user_id = last'.u
                      /\ daysTbl'[n + 1].date = IsoFormat(last'.d)
                      /\ \A c \in DaysColumns \ {"user_id", "date"} :
                            daysTbl'[n + 1][c] =
                               IF c \in DOMAIN f THEN f[c]
                               ELSE [status |-> "NONE", is_holiday |-> FALSE,
                                     holiday_name |-> "", notes |-> ""][c]]_vars

\* C11's case: upsert_day first added a row for the holiday 2024-02-19 (status
\* given, the rest defaults), and later changed status and notes of the seeded
\* 2024-03-05, the seeded 2024-03-04 and 2024-03-06 staying as seeded
C11_Witness ==
    /\ last.op = "upsert_day"
    /\ last.d = <<2024, 3, 5>>
    /\ Len(daysTbl) = 32
    /\ LET feb == RowsFor(daysTbl, last.u, <<2024, 2, 19>>)
           tue == RowsFor(daysTbl, last.u, <<2024, 3, 5>>)
           mon == RowsFor(daysTbl, last.u, <<2024, 3, 4>>)
       IN  /\ Len(feb) = 1 /\ Len(tue) = 1 /\ Len(mon) = 1
           /\ feb[1].status = "IN_OFFICE" /\ ~feb[1].is_holiday /\ feb[1].notes = ""
           /\ tue[1].status = "WFH" /\ tue[1].notes = "home" /\ ~tue[1].is_holiday
           /\ mon[1].status \in {"WFH", "NONE"} /\ mon[1].notes = ""

\* a state of SpecCalc in which fn has returned
HasReturned(fn) == input.fn = fn /\ output.status = "returned"

\* the positions of a list whose record satisfies P
Positions(days, P(_)) == {i \in 1..Len(days) : P(days[i])}

\* the day of the week of a date of March or April 2024, from the calendar:
\* 1 March 2024 was a Friday, 1 April 2024 a Monday
CalendarToken(d) ==
    IF d[2] = 3
    THEN WeekdayTokens[((d[3] + 3) % 7) + 1]
    ELSE WeekdayTokens[((d[3] + 6) % 7) + 1]

IsMonFri(d) == CalendarToken(d) \notin {"SAT", "SUN"}

\* C12: the numerator compute_summary returns is the number of creditable
\* records: a Mon-Fri record is creditable iff its status counts as office or
\* it is a holiday that credited_holiday credits, a Sat/Sun record iff its
\* status counts as office. No record adds more than 1, and a list of weekend
\* holidays of status NONE has numerator 0.
C12_NumeratorCountsCreditableRecords ==
    HasReturned("compute_summary") =>
        LET days == input.days
            office(r) == r.status \in {"IN_OFFICE", "VACATION", "BIOHUB", "TRAINING",
                                       "OTHER_HOLIDAY"}
            creditable(r) ==
                IF IsMonFri(r.date)
                THEN office(r) \/ (r.is_holiday /\ CreditedHoliday(r.date, input.settings))
                ELSE office(r)
            idleWeekendHoliday(r) ==
                ~IsMonFri(r.date) /\ r.is_holiday /\ r.status = "NONE"
        IN  /\ output.value.numerator = Cardinality(Positions(days, creditable))
            /\ output.value.numerator <= Len(days)
            /\ Positions(days, idleWeekendHoliday) = 1..Len(days)
                  => output.value.numerator = 0

\* C12's case: a Monday in office that is also a credited holiday, and a
\* Saturday holiday of status NONE: numerator 1
C12_Witness ==
    /\ HasReturned("compute_summary")
    /\ Len(input.days) = 2
    /\ input.days[1] = DayRecord(<<2024, 3, 4>>, "IN_OFFICE", TRUE)
    /\ input.days[2] = DayRecord(<<2024, 3, 9>>, "NONE", TRUE)
    /\ CreditedHoliday(<<2024, 3, 4>>, input.settings)
    /\ output.value.numerator = 1

\* C13: credited_holidays is the number of Mon-Fri records that are holidays
\* credited_holiday credits, whatever their status, and is never more than
\* the numerator.
C13_CreditedHolidaysCount ==
    HasReturned("compute_summary") =>
        LET credited(r) == /\ IsMonFri(r.date)
                           /\ r.is_holiday
                           /\ CreditedHoliday(r.date, input.settings)
        IN  /\ output.value.credited_holidays
                  = Cardinality(Positions(input.days, credited))
            /\ output.value.credited_holidays <= output.value.numerator

\* C13's case: a Wednesday in office that is a credited holiday adds 1 to
\* credited_holidays and 1 to numerator, next to a Wednesday in office that is
\* no holiday
C13_Witness ==
    /\ HasReturned("compute_summary")
    /\ Len(input.days) = 2
    /\ input.days[1] = DayRecord(<<2024, 3, 6>>, "IN_OFFICE", TRUE)
    /\ input.days[2] = DayRecord(<<2024, 3, 6>>, "IN_OFFICE", FALSE)
    /\ output.value.credited_holidays = 1
    /\ output.value.numerator = 2

\* C14: the denominator compute_summary returns is the number of Mon-Fri
\* records of the list, and computing the summary again after the status or
\* the holiday flag of a record changed returns the same denominator.
C14_DenominatorCountsWeekdayRecords ==
    [][(input'.fn = "compute_summary" /\ output'.status = "returned") =>
          /\ output'.value.denominator
                = Cardinality(Positions(input'.days, LAMBDA r : IsMonFri(r.date)))
          /\ output'.value.workdays = output'.value.denominator
          /\ output.status = "returned"
                => output'.value.denominator = output.value.denominator]_vars

\* C14's case: a Saturday on VACATION that is a holiday and a Monday of status
\* NONE: denominator 1
C14_Witness ==
    /\ HasReturned("compute_summary")
    /\ Len(input.days) = 2
    /\ input.days[1] = DayRecord(<<2024, 3, 9>>, "VACATION", TRUE)
    /\ input.days[2] = DayRecord(<<2024, 3, 4>>, "NONE", FALSE)
    /\ output.value.denominator = 1
    /\ output.value.numerator = 1

\* C15: credited_holiday(date, settings) is true iff the date's weekday token
\* is in credit_weekdays (TUE, WED, THU where the settings hold none), or the
\* token is MON or FRI and monfri_holiday_treatment is credit; with
\* credit_weekdays within MON..FRI it is false for a Saturday and a Sunday, and
\* with the default credit_weekdays it is true for a Wednesday whatever the
\* treatment.
C15_CreditedHolidayPolicy ==
    HasReturned("credited_holiday") =>
        LET token     == CalendarToken(input.date)
            weekdays  == IF "credit_weekdays" \in DOMAIN input.settings
                         THEN Range(input.settings.credit_weekdays)
                         ELSE {"TUE", "WED", "THU"}
            treatment == IF "monfri_holiday_treatment" \in DOMAIN input.settings
                         THEN input.settings.monfri_holiday_treatment
                         ELSE "neutral"
        IN  /\ output.value <=> \/ token \in weekdays
                                \/ token \in {"MON", "FRI"} /\ treatment = "credit"
            /\ token \in {"SAT", "SUN"} => ~output.value
            /\ (token = "WED" /\ weekdays = {"TUE", "WED", "THU"}) => output.value

\* C15's case: a Wednesday under the default credit_weekdays and the treatment
\* exclude is credited
C15_Witness ==
    /\ HasReturned("credited_holiday")
    /\ "credit_weekdays" \in DOMAIN input.settings
    /\ input.date = <<2024, 3, 6>>
    /\ input.settings.credit_weekdays = <<"TUE", "WED", "THU">>
    /\ input.settings.monfri_holiday_treatment = "exclude"
    /\ output.value = TRUE

\* C16 as claimed: credited_holiday for a Monday is true iff
\* monfri_holiday_treatment is credit, for every credit_weekdays within MON..FRI.
C16_MondayIffCredit ==
    (HasReturned("credited_holiday") /\ CalendarToken(input.date) = "MON") =>
        (output.value <=>
            Get(input.settings, "monfri_holiday_treatment", "neutral") = "credit")

\* C16, amended: credited_holiday for a Monday is true iff MON is in
\* credit_weekdays or monfri_holiday_treatment is credit; so for every
\* credit_weekdays without MON, the default among them, it is true iff the
\* treatment is credit, and with MON in credit_weekdays it is true under every
\* treatment.
C16_MondayIffCreditOrListed ==
    (HasReturned("credited_holiday") /\ CalendarToken(input.date) = "MON") =>
        LET weekdays == IF "credit_weekdays" \in DOMAIN input.settings
                        THEN Range(input.settings.credit_weekdays)
                        ELSE {"TUE", "WED", "THU"}
            credit   == Get(input.settings, "monfri_holiday_treatment", "neutral")
                            = "credit"
        IN  /\ output.value <=> ("MON" \in weekdays \/ credit)
            /\ "MON" \notin weekdays => (output.value <=> credit)
            /\ "MON" \in weekdays => output.value

\* C16's case: a Monday with MON in credit_weekdays and the treatment neutral
\* is credited
C16_Witness ==
    /\ HasReturned("credited_holiday")
    /\ "credit_weekdays" \in DOMAIN input.settings
    /\ input.date = <<2024, 3, 4>>
    /\ input.settings.credit_weekdays = <<"MON", "TUE">>
    /\ input.settings.monfri_holiday_treatment = "neutral"
    /\ output.value = TRUE

\* the settings' required_percent (hundredths) and rounding_mode
PercentOf(settings) == Get(settings, "required_percent", 60)

ModeOf(settings) == Get(settings, "rounding_mode", "ceil")

\* C17: for denominator > 0, required_days is required_percent * denominator
\* rounded up under ceil, down under floor and half up under round_half_up;
\* balance is numerator - required_days; and for a percent in [0, 1],
\* 0 <= required_days <= denominator.
C17_RequiredDaysRounding ==
    (HasReturned("compute_summary") /\ output.value.denominator > 0) =>
        LET exact == PercentOf(input.settings) * output.value.denominator
            mode  == ModeOf(input.settings)
            want  == IF mode = "ceil" THEN (exact + 99) \div 100
                     ELSE IF mode = "floor" THEN exact \div 100
                     ELSE (exact + 50) \div 100
        IN  /\ output.value.required_days = want
            /\ output.value.balance = output.value.numerator - output.value.required_days
            /\ output.value.required_days >= 0
            /\ output.value.required_days <= output.value.denominator

\* C18 as claimed: with required_percent = 0 or denominator = 0 the summary has
\* required_days = 0 and percent_achieved = 0, and no division by zero is made.
C18_ZeroPercentOrEmptyMonthAllZero ==
    (/\ HasReturned("compute_summary")
     /\ PercentOf(input.settings) = 0 \/ output.value.denominator = 0) =>
        /\ output.value.required_days = 0
        /\ output.value.percent_achieved.d # 0
        /\ output.value.percent_achieved.n = 0

\* C18, amended: with required_percent = 0 or denominator = 0 the summary has
\* required_days = 0; with denominator = 0 it has percent_achieved = 0, no
\* division being made; with required_percent = 0 and denominator > 0,
\* percent_achieved is numerator / denominator * 100 as for any other percent.
C18_ZeroRequiredAndGuardedPercent ==
    HasReturned("compute_summary") =>
        LET sum == output.value
        IN  /\ (PercentOf(input.settings) = 0 \/ sum.denominator = 0)
                  => sum.required_days = 0
            /\ sum.percent_achieved.d # 0
            /\ sum.denominator = 0 => sum.percent_achieved.n = 0
            /\ sum.denominator > 0 =>
                  sum.percent_achieved.n * sum.denominator
                      = sum.numerator * 100 * sum.percent_achieved.d

\* C18's case: a Saturday in office alone (numerator 1, denominator 0):
\* required_days 0 and percent_achieved 0
C18_Witness ==
    /\ HasReturned("compute_summary")
    /\ input.days = <<DayRecord(<<2024, 3, 9>>, "IN_OFFICE", FALSE)>>
    /\ output.value.numerator = 1
    /\ output.value.denominator = 0
    /\ output.value.required_days = 0
    /\ output.value.percent_achieved.n = 0

\* whether two JSON values of scalar kind are the same
Same(a, b) == a.t = b.t /\ a.v = b.v

\* a state of SpecCalc in which deserialize_month has returned or raised
Deserialized == input.fn = "deserialize_month" /\ output.status # "pending"

\* C19: deserialize_month of what serialize_month returned for a list of day
\* records returns days of the same number and order with the same dates (as
\* dates), statuses, is_holiday flags and notes; holiday_name comes back as the
\* empty string both where the record had none and where it had the empty
\* string; the version is "1.2".
C19_ExportImportRoundTrip ==
    (Deserialized /\ input.source = "export") =>
        /\ output.status = "returned"
        /\ Same(output.value.version, JStr("1.2"))
        /\ output.value.days.t = "arr"
        /\ Len(output.value.days.v) = Len(input.exported)
        /\ \A i \in 1..Len(input.exported) :
              LET orig == input.exported[i]
                  back == output.value.days.v[i]
                  textOf(k) == IF k \in DOMAIN orig THEN orig[k] ELSE ""
              IN  /\ Same(ObjGet(back, "date", JNull), PyDate(orig.date))
                  /\ Same(ObjGet(back, "status", JNull), JStr(orig.status))
                  /\ Same(ObjGet(back, "is_holiday", JNull), JBool(orig.is_holiday))
                  /\ Same(ObjGet(back, "notes", JNull), JStr(textOf("notes")))
                  /\ Same(ObjGet(back, "holiday_name", JNull), JStr(textOf("holiday_name")))

\* C19's case: a record without holiday_name and a leap-day record with the
\* empty holiday_name exported and imported: both come back with the empty
\* holiday_name, the second dated 2024-02-29
C19_Witness ==
    /\ Deserialized
    /\ input.source = "export"
    /\ Len(input.exported) = 2
    /\ "holiday_name" \notin DOMAIN input.exported[1]
    /\ input.exported[2].date = <<2024, 2, 29>>
    /\ output.status = "returned"
    /\ Same(ObjGet(output.value.days.v[1], "holiday_name", JNull), JStr(""))
    /\ Same(ObjGet(output.value.days.v[2], "holiday_name", JNull), JStr(""))
    /\ Same(ObjGet(output.value.days.v[2], "date", JNull), PyDate(<<2024, 2, 29>>))

\* C20 as claimed: deserialize_month fails with the format error, returning
\* nothing, for a text that is not valid JSON, that lacks version, settings,
\* summary or days, that holds a day without date, status or is_holiday, or
\* that holds a day whose date is no ISO calendar date.
C20_MalformedImportRejected ==
    (/\ Deserialized
     /\ input.defect \in {"invalid json", "no version", "no settings", "no summary",
                          "no days", "day without date", "day without status",
                          "day without is_holiday", "date not iso",
                          "date not in calendar"}) =>
        output = Raised("ValueError")

\* What deserialize_month does with each file: it fails with the format error,
\* returning nothing, for a text that is not valid JSON, that holds a day
\* without date, or that holds a day whose date is a string that is no ISO
\* calendar date. A text that lacks version, settings, summary or days is
\* accepted, with "1.0", an empty object, an empty object and an empty list in
\* their place; a day without status or is_holiday is accepted as it is. A text
\* that is no JSON object, days that are no list and a date that is no string
\* make it fail with another error (AttributeError, TypeError).
DeserializeMonthOutcomes ==
    Deserialized =>
        LET d        == input.defect
            ret      == output.value
            dropped  == <<"version", "settings", "summary", "days">>
            fallback == <<JStr("1.0"), JObj(<<>>), JObj(<<>>), JArr(<<>>)>>
        IN  /\ d \in {"invalid json", "day without date", "date not iso",
                      "date not in calendar"} => output = Raised("ValueError")
            /\ d = "not an object" => output = Raised("AttributeError")
            /\ d \in {"days not a list", "date not a string"}
                  => output = Raised("TypeError")
            /\ \A i \in 1..4 : d = "no " \o dropped[i] =>
                  /\ output.status = "returned"
                  /\ ret[dropped[i]].t = fallback[i].t
                  /\ ret[dropped[i]].v = fallback[i].v
            /\ \A k \in {"status", "is_holiday"} : d = "day without " \o k =>
                  /\ output.status = "returned"
                  /\ Len(ret.days.v) = 2
                  /\ ~ObjHas(ret.days.v[2], k)
                  /\ ObjGet(ret.days.v[2], "date", JNull).t = "date"
            /\ d = "none" => output.status = "returned"

\* C21 as claimed: a get_month_days whose holiday lookup fails (a country code
\* the lookup does not know, or the lookup raising), with every storage call
\* succeeding, still returns and stores a record for every date of the month,
\* and every record it creates has is_holiday = false and an empty holiday_name.
C21_OracleFailureStillFillsMonth ==
    [][(Called("get_month_days") /\ last'.oracle
            /\ last'.fault \in {NoFault, "holidays"}) =>
          /\ \A d \in Range(GridDates(last'.y, last'.m)) :
                /\ \E r \in Range(last'.ret) : r.date = d /\ r.user_id = last'.u
                /\ <<last'.u, IsoFormat(d)>> \in DayKeys(daysTbl')
          /\ \A i \in (Len(daysTbl) + 1)..Len(daysTbl') :
                daysTbl'[i].is_holiday = FALSE /\ daysTbl'[i].holiday_name = ""]_vars

\* What get_month_days does when its holiday lookup fails: it returns the
\* empty list and creates no record, whether the month had records or not.
OracleFailureReturnsNothing ==
    [][(Called("get_month_days") /\ last'.oracle) =>
          last'.ret = <<>> /\ daysTbl' = daysTbl]_vars

\* the Monday-to-Friday records of a list returned by get_month_days
WeekdayRecords(days) == {i \in 1..Len(days) : Weekday(days[i].date) < 5}

\* the storage calls that may fail
StorageFaults == UNION {StorageCalls[op] : op \in DOMAIN StorageCalls}

\* whether the owner has a record for every date of the month
MonthFilled(dtbl, u, y, m) ==
    \A d \in Range(GridDates(y, m)) : <<u, IsoFormat(d)>> \in DayKeys(dtbl)

\* C22: a call in which one storage call fails returns: get_settings the
\* default settings, get_month_days the empty list, bulk_set_vacation 0,
\* upsert_settings and upsert_day nothing, each leaving the table of the failed
\* call as it was; where the failed call is the one get_month_days makes
\* through get_settings, get_month_days goes on with the default settings. The
\* summary load_month_data computes over what the calls returned is that of
\* the list returned (denominator = its Monday-to-Friday records).
C22_StorageFailureIsAbsorbed ==
    [][(nops' = nops + 1 /\ last'.fault \in StorageFaults) =>
          /\ last'.op = "get_settings" =>
                /\ ComputeSummary(<<>>, last'.ret).required_days = 0
                /\ (last'.fault = "sel_settings" \/ SelectSettings(settingsTbl, last'.u) = <<>>)
                      => last'.ret = FallbackSettings(last'.u) /\ settingsTbl' = settingsTbl
          /\ last'.op = "upsert_settings" =>
                ((last'.fault = "upd_settings" \/ SelectSettings(settingsTbl, last'.u) = <<>>)
                      => settingsTbl' = settingsTbl)
          /\ last'.op = "get_month_days" =>
                /\ last'.fault = "sel_days" =>
                      last'.ret = <<>> /\ daysTbl' = daysTbl /\ settingsTbl' = settingsTbl
                /\ (last'.fault = "ins_days"
                        /\ ~MonthFilled(daysTbl, last'.u, last'.y, last'.m)) =>
                      last'.ret = <<>> /\ daysTbl' = daysTbl
                /\ (last'.fault \in {"sel_settings", "ins_settings"} /\ ~last'.oracle) =>
                      /\ MonthFilled(daysTbl', last'.u, last'.y, last'.m)
                      /\ \A d \in Range(GridDates(last'.y, last'.m)) :
                            \E r \in Range(last'.ret) : r.date = d /\ r.user_id = last'.u
                /\ ComputeSummary(last'.ret, FallbackSettings(last'.u)).denominator
                      = Cardinality(WeekdayRecords(last'.ret))
          /\ last'.op = "upsert_day" =>
                ((last'.fault = "upd_days"
                    \/ <<last'.u, IsoFormat(last'.d)>> \notin DayKeys(daysTbl))
                      => daysTbl' = daysTbl)
          /\ last'.op = "bulk_set_vacation" => last'.ret = 0 /\ daysTbl' = daysTbl
          /\ last'.op = "load_month_data" =>
                /\ (\/ last'.fault = "sel_days"
                    \/ /\ last'.fault = "ins_days"
                       /\ ~MonthFilled(daysTbl, last'.u, last'.y, last'.m))
                      => last'.ret.days = <<>>
                /\ last'.ret.summary.denominator
                      = Cardinality(WeekdayRecords(last'.ret.days))
                /\ last'.ret.summary.required_days \in 0..last'.ret.summary.denominator
                /\ last'.ret.summary.balance
                      = last'.ret.summary.numerator - last'.ret.summary.required_days]_vars

\* C22's case: with a record stored for the month, the insert of the backfill
\* fails: get_month_days returns the empty list and the store keeps its record
C22_Witness ==
    /\ last.op = "get_month_days"
    /\ last.fault = "ins_days"
    /\ last.found > 0
    /\ last.ret = <<>>
    /\ \E i \in 1..Len(daysTbl) : daysTbl[i].user_id = last.u

\* the (week, slot) positions of a grid of weeks that hold the value
SlotsOf(weeks, x) ==
    {<<i, j>> \in (1..Len(weeks)) \X (1..7) : weeks[i][j] = x}

\* whether grid and weeks are the same number of Monday-first weeks of 7 slots
\* with every date of the month once in each, at the same week and slot, and
\* every other slot None in grid and a date of a month next to it in weeks
GridAgreesWithWeeks(grid, weeks, y, m) ==
    /\ Len(grid) = Len(weeks)
    /\ \A i \in 1..Len(grid) :
          /\ Len(grid[i]) = 7
          /\ Len(weeks[i]) = 7
          /\ \A j \in 1..7 :
                /\ Weekday(weeks[i][j]) = j - 1
                /\ Ordinal(weeks[i][j]) = Ordinal(weeks[1][1]) + 7 * (i - 1) + j - 1
                /\ IF weeks[i][j][1] = y /\ weeks[i][j][2] = m
                   THEN grid[i][j] = weeks[i][j]
                   ELSE /\ grid[i][j] = None
                        /\ <<weeks[i][j][1], weeks[i][j][2]>>
                              \in {PrevMonth(y, m), NextMonth(y, m)}
    /\ \A d \in 1..DaysInMonth(y, m) :
          /\ Cardinality(SlotsOf(grid, <<y, m, d>>)) = 1
          /\ SlotsOf(weeks, <<y, m, d>>) = SlotsOf(grid, <<y, m, d>>)

\* a state of SpecCalc in which build_weeks has returned or raised for the
\* month whose grid month_grid returned
WeeksBuilt == input.fn = "build_weeks" /\ output.status # "pending"

\* C23 as claimed: for every year and month, month_grid and build_weeks give
\* the same number of Monday-first weeks of 7 slots, every date of the month
\* is once in each at the same week and slot, and a slot outside the month is
\* None in the grid and a date of an adjacent month in the weeks.
C23_GridAndWeeksAgree ==
    WeeksBuilt =>
        /\ output.status = "returned"
        /\ GridAgreesWithWeeks(input.grid, output.value, input.year, input.month)

\* C23, amended: the same for every year in 1..9999 and every month but
\* December 9999; for December 9999 month_grid returns its five weeks and
\* build_weeks raises ValueError, the week of the 31st running into the year
\* 10000.
C23_GridAndWeeksAgreeWhereDatesExist ==
    WeeksBuilt =>
        IF input.year = 9999 /\ input.month = 12
        THEN output = Raised("ValueError") /\ Len(input.grid) = 5
        ELSE /\ output.status = "returned"
             /\ GridAgreesWithWeeks(input.grid, output.value, input.year, input.month)

\* C23's case: February 2024 starts on a Thursday: the first week of both
\* forms holds February 1st in the fourth slot, after three placeholders in
\* the grid and after January 29th to 31st in the weeks
C23_Witness ==
    /\ WeeksBuilt
    /\ input.year = 2024 /\ input.month = 2
    /\ output.status = "returned"
    /\ input.grid[1][3] = None
    /\ input.grid[1][4] = <<2024, 2, 1>>
    /\ output.value[1][1] = <<2024, 1, 29>>
    /\ output.value[1][4] = <<2024, 2, 1>>
    /\ output.value[5][7] = <<2024, 3, 3>>

\* C24: an import whose text deserialize_month rejects, or that the caller has
\* not confirmed, makes no upsert_day call and leaves every day record as it
\* was; an import that changes the days table is one whose whole text
\* deserialize_month accepted and that the caller confirmed.
C24_RejectedImportWritesNothing ==
    [][Called("import") =>
          /\ DeserializeMonth(last'.text).status = "raised" =>
                daysTbl' = daysTbl /\ last'.upserts = 0 /\ last'.shown = "error"
          /\ ~last'.confirmed => daysTbl' = daysTbl /\ last'.upserts = 0
          /\ (daysTbl' # daysTbl \/ last'.upserts > 0) =>
                DeserializeMonth(last'.text).status = "returned" /\ last'.confirmed]_vars

\* C24's case: with the month seeded, a confirmed import of a text whose
\* second day is dated 2024-02-30 is refused and the store keeps its records
C24_Witness ==
    /\ last.op = "import"
    /\ last.confirmed
    /\ \E i \in 1..Len(last.text) : Same(last.text[i], JIso(20240230))
    /\ last.shown = "error"
    /\ last.upserts = 0
    /\ Len(daysTbl) = 31

\* C25: along every sequence of get_month_days, upsert_day, bulk_set_vacation
\* and import, every row of the days table stays, with its owner and date, so
\* the (owner, date) keys of the store only grow.
C25_DayRecordsAreNeverDeleted ==
    [][/\ Len(daysTbl') >= Len(daysTbl)
       /\ \A i \in 1..Len(daysTbl) :
             /\ daysTbl'[i].user_id = daysTbl[i].user_id
             /\ daysTbl'[i].date = daysTbl[i].date
       /\ DayKeys(daysTbl) \subseteq DayKeys(daysTbl')]_vars

\* C25's case: after a record of another owner was stored, a confirmed import
\* has written its two days and the other owner's record is still there
C25_Witness ==
    /\ last.op = "import"
    /\ last.upserts = 2
    /\ \E i \in 1..Len(daysTbl) : daysTbl[i].user_id # SessionOwner
    /\ \E i \in 1..Len(daysTbl) :
          daysTbl[i].user_id = SessionOwner /\ daysTbl[i].date = 20240309

\* the rows of a table that belong to the owner, in order
OwnedBy(tbl, u) == SelectSeq(tbl, LAMBDA r : r.user_id = u)

\* C26: a call of get_month_days, upsert_day, bulk_set_vacation, get_settings
\* or upsert_settings made for an owner leaves the day records and the
\* settings row of every other owner as they were, creates none for them, and
\* returns only records and settings of the owner it was made for.
C26_OwnerIsolation ==
    [][(nops' = nops + 1) =>
          /\ \A b \in Owners \ {last'.u} :
                /\ OwnedBy(daysTbl', b) = OwnedBy(daysTbl, b)
                /\ OwnedBy(settingsTbl', b) = OwnedBy(settingsTbl, b)
          /\ \A i \in 1..Len(daysTbl') : daysTbl'[i].user_id \in Owners
          /\ \A i \in 1..Len(settingsTbl') : settingsTbl'[i].user_id \in Owners
          /\ last'.op = "get_month_days" =>
                \A i \in 1..Len(last'.ret) : last'.ret[i].user_id = last'.u
          /\ last'.op = "get_settings" => last'.ret.user_id = last'.u]_vars

\* C26's case: with records of rachel stored for the month, get_month_days for
\* bob has seeded and returned bob's records only, and rachel's are still there
C26_Witness ==
    /\ last.op = "get_month_days"
    /\ last.u = "bob"
    /\ last.found = 0
    /\ last.ret # <<>>
    /\ \A i \in 1..Len(last.ret) : last.ret[i].user_id = "bob"
    /\ \E i \in 1..Len(daysTbl) :
          /\ daysTbl[i].user_id = "rachel"
          /\ daysTbl[i].date >= IsoFormat(<<last.y, last.m, 1>>)
          /\ daysTbl[i].date < IsoFormat(NextMonthStart(last.y, last.m))

====
